---- MODULE Spec2Model ----
(***************************************************************************)
(* A model of Schminput's gamepad provider (src/src/gamepad.rs) and of the *)
(* rebinding crate's config and default-bindings plugins                   *)
(* (src/schminput_rebinding/src/config.rs, default_bindings.rs).           *)
(*                                                                         *)
(* Five state machines share this module, one per subsystem:               *)
(*   SpecPath    the subaction-path parser  (handle_new_subaction_paths)   *)
(*   SpecHaptic  haptic dispatch            (sync_haptics, clear_haptic)   *)
(*   SpecConfig  the load/save pipeline     (load_config, save_config ...) *)
(*   SpecReset   default bindings and reset (copy_default_bindings, ...)   *)
(*   SpecSync    input sync                 (sync_actions, matches)        *)
(* Each specification leaves the variables of the other subsystems at      *)
(* their idle values.                                                      *)
(*                                                                         *)
(* Option<T> is modelled as a sequence of length 0 (None) or 1 (Some).     *)
(* A string is a sequence of atoms: the separator "/" and words that hold  *)
(* no separator; the string is the concatenation of its atoms.             *)
(***************************************************************************)
EXTENDS Integers, Sequences, FiniteSets, Bags, TLC

VARIABLES
    \* ---- subaction path registry (gamepad.rs) ----
    pathStr,      \* path entity -> Option<SubactionPathStr>
    selector,     \* path entity -> Option<GamepadPathSelector>
    target,       \* path entity -> Option<GamepadPathTarget>
    side,         \* path entity -> Option<GamepadPathTargetSide>
    pathEvents,   \* unread SubactionPathCreated messages (entities)
    parsed,       \* history: entities a notification was processed for
    reparsed,     \* history: entities a later notification was processed for
    \* ---- haptic dispatch (gamepad.rs) ----
    hapBindings,  \* action -> GamepadHapticOutputBindings.bindings
    hapOut,       \* action -> GamepadHapticOutput.haptic_feedbacks
    actionSet,    \* action -> state of the ActionSet entity of Action.set
    connected,    \* the gamepad entities that exist (have a Gamepad component)
    rumble,       \* bag of GamepadRumbleRequest written in the current pass
    dispatched,   \* history: which loop iteration wrote which request
    hapPhase,     \* "update": before sync_haptics; "post": after it
    lastCleared,  \* history: clear_haptic removed a command at the start of
                  \* this pass (kept until the pass dispatches)
    \* ---- config load/save pipeline (config.rs) ----
    configDir,    \* does the ConfigFilePath resource resolve (path_buf is Some)
    file,         \* what is at the config path: [kind, bytes]
    parentDir,    \* the parent directory: "exists", "creatable" or "blocked"
    loadMsgs,     \* LoadSchminputConfig messages the run condition has not seen
    saveMsgs,     \* SaveSchminputConfig messages the run condition has not seen
    serializeReq, \* SerializeSchminputConfig messages the serializer has not read
    serialized,   \* FinnishedSchminputConfigSerialization messages that
                  \* save_config's reader has not read: [output, age]
    deserializeReq, \* DeserializeSchminputConfig messages written in this pass
    finished,     \* FinnishedSavingSchminputConfig messages written in this pass
    cfgPhase,     \* "update" or "post" (PostUpdate is running)
    ran,          \* the PostUpdate systems that had their turn in this pass
    passLog,      \* history: what the systems of this pass did, in order
    lastWrite,    \* history: Some(text) while the file is as save_config wrote it
    \* ---- default bindings and reset (default_bindings.rs) ----
    xrFeature,    \* is the crate built with feature "xr"
    alive,        \* the entities that exist (actions and snapshots)
    components,   \* entity -> binding-collection type -> Option<collection>
    defaultBindings, \* action -> Option<DefaultBindings> (the snapshot link)
    resetMsgs,    \* unread ResetToDefautlBindings messages
    rstPhase,     \* "startup" until PostStartup has run, then "update"
    edits,        \* how many binding edits the application has made
    snapAt,       \* history: link and snapshot as copy_default_bindings left them
    lastReset,    \* history: the last run of reset_bindings, [msgs, before]
    \* ---- input sync (gamepad.rs) ----
    bindingSource, \* GamepadBinding.source of the action's binding
    pathData,     \* the requested subaction path's components: [sel, tgt, side]
    pads,         \* connected gamepad -> Option<GamepadIdentifier>
    syncOut,      \* None before sync_actions; Some(what the pass did) after it
    \* ---- binding evaluation (gamepad.rs) ----
    gpBinding,    \* a GamepadBinding: [source, button_behavior, axis, axis_dir]
    bindOut       \* history: the last operation on the binding and its result

pathVars == <<pathStr, selector, target, side, pathEvents, parsed, reparsed>>
hapVars == <<hapBindings, hapOut, actionSet, connected, rumble, dispatched, hapPhase,
             lastCleared>>

cfgVars == <<configDir, file, parentDir, loadMsgs, saveMsgs, serializeReq,
             serialized, deserializeReq, finished, cfgPhase, ran, passLog, lastWrite>>

rstVars == <<xrFeature, alive, components, defaultBindings, resetMsgs, rstPhase,
             edits, snapAt, lastReset>>

syncVars == <<bindingSource, pathData, pads, syncOut>>

bindVars == <<gpBinding, bindOut>>

vars == <<pathVars, hapVars, cfgVars, rstVars, syncVars, bindVars>>
nonPathVars == <<hapVars, cfgVars, rstVars, syncVars, bindVars>>
nonHapVars == <<pathVars, cfgVars, rstVars, syncVars, bindVars>>
nonCfgVars == <<pathVars, hapVars, rstVars, syncVars, bindVars>>
nonRstVars == <<pathVars, hapVars, cfgVars, syncVars, bindVars>>
nonSyncVars == <<pathVars, hapVars, cfgVars, rstVars, bindVars>>
nonBindVars == <<pathVars, hapVars, cfgVars, rstVars, syncVars>>

None == <<>>
Some(v) == <<v>>

(***************************************************************************)
(* Strings                                                                 *)
(***************************************************************************)
Slash == "/"

\* str::strip_prefix: Some(rest) when p is a prefix of s
StripPrefix(s, p) ==
    IF Len(p) <= Len(s) /\ SubSeq(s, 1, Len(p)) = p
    THEN Some(SubSeq(s, Len(p) + 1, Len(s)))
    ELSE None

\* str::split_once('/').unwrap_or((s, "")) as used at gamepad.rs:78
SplitOnceOr(s) ==
    IF \E i \in 1..Len(s) : s[i] = Slash
    THEN LET i == CHOOSE k \in 1..Len(s) :
                      s[k] = Slash /\ \A j \in 1..(k - 1) : s[j] # Slash
         IN  <<SubSeq(s, 1, i - 1), SubSeq(s, i + 1, Len(s))>>
    ELSE <<s, <<>>>>

(***************************************************************************)
(* GamepadPathSelector, GamepadPathTarget, GamepadPathTargetSide           *)
(***************************************************************************)
SelAll == <<"All">>
SelGamepad(v) == <<"Gamepad", v>>

GamepadPathTarget == {"Thumbstick", "Trigger", "SecondaryTrigger", "Buttons", "Dpad"}
GamepadPathTargetSide == {"Left", "Right"}

\* The inserts one notification queues for its entity: each component is
\* None (no insert) or Some(value).
NoInserts == [sel |-> None, tgt |-> None, side |-> None]

\* gamepad.rs:96-141, the match on path_str
RegionInserts(path_str) ==
    CASE path_str = <<>> -> [tgt |-> None, side |-> None]
      [] path_str = <<"thumbstick">> \/ path_str = <<"thumbstick", Slash, "*">>
            -> [tgt |-> Some("Thumbstick"), side |-> None]
      [] path_str = <<"thumbstick", Slash, "left">>
            -> [tgt |-> Some("Thumbstick"), side |-> Some("Left")]
      [] path_str = <<"thumbstick", Slash, "right">>
            -> [tgt |-> Some("Thumbstick"), side |-> Some("Right")]
      [] path_str = <<"dpad">> -> [tgt |-> Some("Dpad"), side |-> None]
      [] path_str = <<"buttons">> -> [tgt |-> Some("Buttons"), side |-> None]
      [] path_str = <<"trigger">> \/ path_str = <<"trigger", Slash, "*">>
            -> [tgt |-> Some("Trigger"), side |-> None]
      [] path_str = <<"trigger", Slash, "left">>
            -> [tgt |-> Some("Trigger"), side |-> Some("Left")]
      [] path_str = <<"trigger", Slash, "right">>
            -> [tgt |-> Some("Trigger"), side |-> Some("Right")]
      [] path_str = <<"secondary_trigger">>
           \/ path_str = <<"secondray_trigger", Slash, "*">>
            -> [tgt |-> Some("SecondaryTrigger"), side |-> None]
      [] path_str = <<"secondary_trigger", Slash, "left">>
            -> [tgt |-> Some("SecondaryTrigger"), side |-> Some("Left")]
      [] path_str = <<"secondary_trigger", Slash, "right">>
            -> [tgt |-> Some("SecondaryTrigger"), side |-> Some("Right")]
      [] OTHER -> [tgt |-> None, side |-> None]

\* IndexSelector without the "" arm: only `*` selects every gamepad
IndexSelectorStarOnly(index_str) ==
    IF index_str = <<"*">> THEN SelAll ELSE SelGamepad(index_str)

\* IndexSelector falling back to All for a token it cannot use
IndexSelectorFallbackAll(index_str) == SelAll

\* gamepad.rs:81-94, the selector the match on index_str inserts
IndexSelector(index_str) ==
    IF index_str = <<"*">> \/ index_str = <<>>
    THEN SelAll
    ELSE SelGamepad(index_str)

\* gamepad.rs:69-141, the body of the loop for one path string
PathInserts(str) ==
    LET afterPrefix == StripPrefix(str, <<Slash, "gamepad">>) IN
    IF afterPrefix = None THEN NoInserts
    ELSE
    LET afterSlash == StripPrefix(afterPrefix[1], <<Slash>>) IN
    IF afterSlash = None THEN [sel |-> Some(SelAll), tgt |-> None, side |-> None]
    ELSE
    LET split == SplitOnceOr(afterSlash[1])
        index_str == split[1]
        path_str == split[2]
    IN  IF index_str = <<"*">> \/ index_str = <<>>
        THEN [sel |-> Some(IndexSelector(index_str)),
              tgt |-> RegionInserts(path_str).tgt,
              side |-> RegionInserts(path_str).side]
        ELSE \* Gamepad(v) is inserted, then `continue` skips the region match
             [sel |-> Some(IndexSelector(index_str)), tgt |-> None, side |-> None]

(***************************************************************************)
(* The path strings the model draws from                                   *)
(***************************************************************************)
IndexTokens == {<<>>, <<"*">>, <<"0">>, <<"one">>}
RegionWords == {"thumbstick", "trigger", "secondary_trigger", "secondray_trigger",
                "dpad", "buttons", "bogus"}
SidedWords == {"thumbstick", "trigger", "secondary_trigger", "secondray_trigger"}
SideWords == {"left", "right", "*"}

RegionSuffixes ==
    {<<>>, <<Slash>>, <<Slash, "dpad", Slash, "left">>}
      \cup {<<Slash, r>> : r \in RegionWords}
      \cup {<<Slash, r, Slash, s>> : r \in SidedWords, s \in SideWords}

PathStrings ==
    {<<>>, <<Slash, "keyboard">>,
     <<Slash, "keyboard", Slash, "0", Slash, "buttons">>,
     <<Slash, "gamepad">>, <<Slash, "gamepad", "s", Slash, "0">>}
      \cup {<<Slash, "gamepad", Slash>> \o i \o r :
               i \in IndexTokens, r \in RegionSuffixes}

MaxEvents == 2
PathEnts == {"p1", "p2"}

\* The second path entity is there for batches of two notifications: it
\* draws from one string per branch of the parser
SecondPathStrings ==
    {<<Slash, "keyboard">>,
     <<Slash, "gamepad">>,
     <<Slash, "gamepad", Slash, "*", Slash, "dpad">>,
     <<Slash, "gamepad", Slash, Slash, "trigger", Slash, "*">>,
     <<Slash, "gamepad", Slash, "*", Slash, "bogus">>,
     <<Slash, "gamepad", Slash, "0", Slash, "thumbstick", Slash, "left">>}

PathStringsOf(e) == IF e = "p1" THEN PathStrings ELSE SecondPathStrings

(***************************************************************************)
(* Subaction path registry                                                 *)
(***************************************************************************)
InitPath ==
    /\ gpBinding = <<>>
    /\ bindOut = <<>>
    /\ pathStr = [e \in PathEnts |-> None]
    /\ selector = [e \in PathEnts |-> None]
    /\ target = [e \in PathEnts |-> None]
    /\ side = [e \in PathEnts |-> None]
    /\ pathEvents = <<>>
    /\ parsed = {}
    /\ reparsed = {}
    /\ hapBindings = <<>>
    /\ hapOut = <<>>
    /\ actionSet = <<>>
    /\ connected = {}
    /\ rumble = <<>>
    /\ dispatched = {}
    /\ hapPhase = "idle"
    /\ lastCleared = FALSE
    /\ configDir = TRUE
    /\ file = <<>>
    /\ parentDir = "exists"
    /\ loadMsgs = 0
    /\ saveMsgs = 0
    /\ serializeReq = <<>>
    /\ serialized = <<>>
    /\ deserializeReq = <<>>
    /\ finished = 0
    /\ cfgPhase = "idle"
    /\ ran = {}
    /\ passLog = <<>>
    /\ lastWrite = <<>>
    /\ xrFeature = FALSE
    /\ alive = {}
    /\ components = <<>>
    /\ defaultBindings = <<>>
    /\ resetMsgs = <<>>
    /\ rstPhase = "idle"
    /\ edits = 0
    /\ snapAt = <<>>
    /\ lastReset = <<>>
    /\ bindingSource = <<>>
    /\ pathData = <<>>
    /\ pads = <<>>
    /\ syncOut = <<>>

\* A path string is referenced for the first time: the registry spawns its
\* entity with SubactionPathStr and writes SubactionPathCreated.
CreatePath(e, s) ==
    /\ pathStr[e] = None
    /\ Len(pathEvents) < MaxEvents
    /\ pathStr' = [pathStr EXCEPT ![e] = Some(s)]
    /\ pathEvents' = Append(pathEvents, e)
    /\ UNCHANGED <<selector, target, side, parsed, reparsed>>
    /\ UNCHANGED nonPathVars

\* SubactionPathCreated is written again for an entity that already exists.
NotifyAgain(e) ==
    /\ pathStr[e] # None
    /\ e \in parsed
    /\ Len(pathEvents) < MaxEvents
    /\ pathEvents' = Append(pathEvents, e)
    /\ UNCHANGED <<pathStr, selector, target, side, parsed, reparsed>>
    /\ UNCHANGED nonPathVars

\* Commands::entity(e).insert(..): Some(v) overwrites, None leaves as is
Inserted(old, ins) == IF ins = None THEN old ELSE ins

\* ApplyPathEvents with the path string read once, before the loop: every
\* notification of the batch is parsed with the first one's string
ApplyPathEventsFirstString(evs, comps) ==
    IF evs = <<>> \/ pathStr[Head(evs)] = None THEN comps
    ELSE LET ins == PathInserts(pathStr[Head(evs)][1])
             named == {evs[i] : i \in 1..Len(evs)}
         IN  [sel |-> [e \in PathEnts |->
                         IF e \in named THEN Inserted(comps.sel[e], ins.sel)
                         ELSE comps.sel[e]],
              tgt |-> [e \in PathEnts |->
                         IF e \in named THEN Inserted(comps.tgt[e], ins.tgt)
                         ELSE comps.tgt[e]],
              side |-> [e \in PathEnts |->
                         IF e \in named THEN Inserted(comps.side[e], ins.side)
                         ELSE comps.side[e]]]

RECURSIVE ApplyPathEvents(_, _)
\* comps = [sel, tgt, side], each a function over PathEnts
ApplyPathEvents(evs, comps) ==
    IF evs = <<>> THEN comps
    ELSE LET e == Head(evs)
             ins == IF pathStr[e] = None THEN NoInserts
                    ELSE PathInserts(pathStr[e][1])
             next == [sel |-> [comps.sel EXCEPT ![e] = Inserted(@, ins.sel)],
                      tgt |-> [comps.tgt EXCEPT ![e] = Inserted(@, ins.tgt)],
                      side |-> [comps.side EXCEPT ![e] = Inserted(@, ins.side)]]
         IN  ApplyPathEvents(Tail(evs), next)

\* gamepad.rs:60-143: drain the reader, queue the inserts, apply them
HandleNewSubactionPaths ==
    /\ pathEvents # <<>>
    /\ LET out == ApplyPathEvents(pathEvents,
                      [sel |-> selector, tgt |-> target, side |-> side])
       IN  /\ selector' = out.sel
           /\ target' = out.tgt
           /\ side' = out.side
    /\ parsed' = parsed \cup {pathEvents[i] : i \in 1..Len(pathEvents)}
    /\ reparsed' = reparsed \cup ({pathEvents[i] : i \in 1..Len(pathEvents)} \cap parsed)
    /\ pathEvents' = <<>>
    /\ UNCHANGED pathStr
    /\ UNCHANGED nonPathVars

NextPath ==
    \/ \E e \in PathEnts : \E s \in PathStringsOf(e) : CreatePath(e, s)
    \/ \E e \in PathEnts : NotifyAgain(e)
    \/ HandleNewSubactionPaths

SpecPath == InitPath /\ [][NextPath]_vars

(***************************************************************************)
(* Haptic dispatch                                                         *)
(***************************************************************************)
HapActions == {"a1", "a2"}
Gamepads == {"g1", "g2"}
HapPaths == {"pAll", "pZero", "pOne", "pKey"}

\* The path entities of this subsystem, by their strings
HapPathStr ==
    [p \in HapPaths |->
        CASE p = "pAll" -> <<Slash, "gamepad">>
          [] p = "pZero" -> <<Slash, "gamepad", Slash, "0">>
          [] p = "pOne" -> <<Slash, "gamepad", Slash, "one">>
          [] p = "pKey" -> <<Slash, "keyboard">>]

\* Option<&GamepadIdentifier> of each gamepad entity: g1 is tagged "0",
\* g2 carries no identifier
GamepadIdentifier(g) == IF g = "g1" THEN Some(<<"0">>) ELSE None

\* RequestedSubactionPaths of each action
RequestedSubactionPaths(a) ==
    IF a = "a1" THEN <<"pAll", "pZero", "pOne", "pKey">> ELSE <<"pZero", "pAll">>

GamepadHapticType == {"Weak", "Strong"}
\* The binding lists the model draws each action's bindings from
HapBindingLists(a) ==
    IF a = "a1" THEN {<<>>, <<"Weak", "Strong">>}
    ELSE {<<"Strong">>}

\* the index set of a sequence
Indices(seq) == 1..Len(seq)
Range(seq) == {seq[i] : i \in Indices(seq)}

NoIntensity == [weak |-> 0, strong |-> 0]
\* the one start command the model queues: a duration and an intensity
HapAdd == [kind |-> "Add", duration |-> 1, intensity |-> 5]
HapStop == [kind |-> "Stop", duration |-> 0, intensity |-> 0]
GamepadHapticValue == {HapAdd, HapStop}

MaxCmds == 2

\* gamepad.rs:353-358 with GamepadRumbleIntensity::weak_motor / strong_motor
AsRumbleIntensity(type, intensity) ==
    IF type = "Weak" THEN [weak |-> intensity, strong |-> 0]
    ELSE [weak |-> 0, strong |-> intensity]

\* gamepad.rs:185-195 (and 212-224, 241-251): the request one command becomes
RumbleRequest(e, binding, gamepad) ==
    IF e.kind = "Add"
    THEN [kind |-> "Add", duration |-> e.duration,
          intensity |-> AsRumbleIntensity(binding, e.intensity), gamepad |-> gamepad]
    ELSE [kind |-> "Stop", duration |-> 0, intensity |-> NoIntensity,
          gamepad |-> gamepad]

EmptyFeedbacks == [any |-> <<>>, paths |-> [p \in HapPaths |-> <<>>]]

\* SubactionPathMap::get_with_path(..).unwrap_or(&Vec::new())
GetWithPath(out, p) == out.paths[p]

QueuedCount(a) ==
    Len(hapOut[a].any)
      + Len(hapOut[a].paths["pAll"]) + Len(hapOut[a].paths["pZero"])
      + Len(hapOut[a].paths["pOne"]) + Len(hapOut[a].paths["pKey"])

InitHaptic ==
    /\ gpBinding = <<>>
    /\ bindOut = <<>>
    /\ hapBindings \in {f \in [HapActions -> UNION {HapBindingLists(a) : a \in HapActions}] :
                           \A a \in HapActions : f[a] \in HapBindingLists(a)}
    /\ hapOut = [a \in HapActions |-> EmptyFeedbacks]
    /\ actionSet = [a \in HapActions |-> "enabled"]
    /\ connected = {}
    /\ rumble = EmptyBag
    /\ dispatched = {}
    /\ hapPhase = "update"
    /\ lastCleared = FALSE
    \* the paths of this subsystem have been parsed
    /\ pathStr = [p \in HapPaths |-> Some(HapPathStr[p])]
    /\ selector = [p \in HapPaths |-> PathInserts(HapPathStr[p]).sel]
    /\ target = [p \in HapPaths |-> PathInserts(HapPathStr[p]).tgt]
    /\ side = [p \in HapPaths |-> PathInserts(HapPathStr[p]).side]
    /\ pathEvents = <<>>
    /\ parsed = HapPaths
    /\ reparsed = {}
    /\ configDir = TRUE
    /\ file = <<>>
    /\ parentDir = "exists"
    /\ loadMsgs = 0
    /\ saveMsgs = 0
    /\ serializeReq = <<>>
    /\ serialized = <<>>
    /\ deserializeReq = <<>>
    /\ finished = 0
    /\ cfgPhase = "idle"
    /\ ran = {}
    /\ passLog = <<>>
    /\ lastWrite = <<>>
    /\ xrFeature = FALSE
    /\ alive = {}
    /\ components = <<>>
    /\ defaultBindings = <<>>
    /\ resetMsgs = <<>>
    /\ rstPhase = "idle"
    /\ edits = 0
    /\ snapAt = <<>>
    /\ lastReset = <<>>
    /\ bindingSource = <<>>
    /\ pathData = <<>>
    /\ pads = <<>>
    /\ syncOut = <<>>

\* gamepad.rs:414-424, GamepadHapticOutput::add / stop
QueueAny(a, e) ==
    /\ hapPhase = "update"
    /\ QueuedCount("a1") + QueuedCount("a2") < MaxCmds
    /\ hapOut' = [hapOut EXCEPT ![a].any = Append(@, e)]
    /\ UNCHANGED <<hapBindings, actionSet, connected, rumble, dispatched, hapPhase,
                   lastCleared>>
    /\ UNCHANGED nonHapVars

\* gamepad.rs:392-413, GamepadHapticOutput::add_with_path / stop_with_path
QueueWithPath(a, p, e) ==
    /\ hapPhase = "update"
    /\ p \in Range(RequestedSubactionPaths(a))
    /\ QueuedCount("a1") + QueuedCount("a2") < MaxCmds
    /\ hapOut' = [hapOut EXCEPT ![a].paths[p] = Append(@, e)]
    /\ UNCHANGED <<hapBindings, actionSet, connected, rumble, dispatched, hapPhase,
                   lastCleared>>
    /\ UNCHANGED nonHapVars

\* The application enables or disables the action's set, or despawns it
SetActionSet(a, st) ==
    /\ hapPhase = "update"
    /\ actionSet[a] # st
    /\ actionSet' = [actionSet EXCEPT ![a] = st]
    /\ UNCHANGED <<hapBindings, hapOut, connected, rumble, dispatched, hapPhase,
                   lastCleared>>
    /\ UNCHANGED nonHapVars

\* A gamepad is plugged in or pulled
ConnectGamepad(g) ==
    /\ hapPhase = "update"
    /\ g \notin connected
    /\ connected' = connected \cup {g}
    /\ UNCHANGED <<hapBindings, hapOut, actionSet, rumble, dispatched, hapPhase,
                   lastCleared>>
    /\ UNCHANGED nonHapVars

DisconnectGamepad(g) ==
    /\ hapPhase = "update"
    /\ g \in connected
    /\ connected' = connected \ {g}
    /\ UNCHANGED <<hapBindings, hapOut, actionSet, rumble, dispatched, hapPhase,
                   lastCleared>>
    /\ UNCHANGED nonHapVars

\* SetEnabled with an action set that cannot be found counted as enabled
SetEnabledUnlessDisabled(a) == actionSet[a] # "disabled"

\* gamepad.rs:179, set_query.get(action.set).is_ok_and(|v| v.enabled)
SetEnabled(a) == actionSet[a] = "enabled"

\* AnyWrites with the gamepad loop cut short after its first gamepad
AnyWritesFirstGamepad(a) ==
    IF ~SetEnabled(a) \/ connected = {} THEN {}
    ELSE LET g == CHOOSE x \in connected : TRUE
         IN  {[action |-> a, bucket |-> "any", path |-> 0, binding |-> i,
               cmd |-> j,
               req |-> RumbleRequest(hapOut[a].any[j], hapBindings[a][i], g)] :
                 i \in 1..Len(hapBindings[a]), j \in 1..Len(hapOut[a].any)}

\* gamepad.rs:182-198: one write per (binding, gamepad, "any" command)
AnyWrites(a) ==
    IF ~SetEnabled(a) THEN {}
    ELSE {[action |-> a, bucket |-> "any", path |-> 0, binding |-> i,
           cmd |-> j,
           req |-> RumbleRequest(hapOut[a].any[j], hapBindings[a][i], g)] :
             i \in 1..Len(hapBindings[a]), g \in connected,
             j \in 1..Len(hapOut[a].any)}

\* FoundGamepads with the comparison of the identifier left out
FoundGamepadsAnyTagged(id) == {g \in connected : GamepadIdentifier(g) # None}

\* gamepad.rs:234-237: the gamepads the named selector finds
FoundGamepads(id) == {g \in connected : GamepadIdentifier(g) = Some(id)}

\* gamepad.rs:199-256: the writes for the k-th requested subaction path
PathWrites(a, k) ==
    LET sub_path == RequestedSubactionPaths(a)[k]
        device == selector[sub_path]
        cmds == GetWithPath(hapOut[a], sub_path)
        devices == IF device = None THEN {}
                   ELSE IF device[1] = SelAll THEN connected
                   ELSE FoundGamepads(device[1][2])
    IN  IF ~SetEnabled(a) THEN {}
        ELSE {[action |-> a, bucket |-> sub_path, path |-> k, binding |-> i,
               cmd |-> j,
               req |-> RumbleRequest(cmds[j], hapBindings[a][i], g)] :
                 i \in 1..Len(hapBindings[a]), g \in devices, j \in 1..Len(cmds)}

AllWrites ==
    UNION {AnyWrites(a) : a \in HapActions}
      \cup UNION {UNION {PathWrites(a, k) :
                             k \in 1..Len(RequestedSubactionPaths(a))} :
                    a \in HapActions}

\* The bag of the requests of a set of writes
RequestBag(writes) ==
    LET reqs == {w.req : w \in writes}
    IN  [r \in reqs |-> Cardinality({w \in writes : w.req = r})]

\* gamepad.rs:166-258
SyncHaptics ==
    /\ hapPhase = "update"
    /\ hapPhase' = "post"
    /\ dispatched' = AllWrites
    /\ rumble' = RequestBag(AllWrites)
    /\ lastCleared' = FALSE
    /\ UNCHANGED <<hapBindings, hapOut, actionSet, connected>>
    /\ UNCHANGED nonHapVars

\* ClearHaptic that empties the "any" bucket only
ClearHapticAnyOnly ==
    /\ hapPhase = "post"
    /\ hapPhase' = "update"
    /\ hapOut' = [a \in HapActions |-> [hapOut[a] EXCEPT !.any = <<>>]]
    /\ lastCleared' = (Len(hapOut["a1"].any) + Len(hapOut["a2"].any) > 0)
    /\ rumble' = EmptyBag
    /\ dispatched' = {}
    /\ UNCHANGED <<hapBindings, actionSet, connected>>
    /\ UNCHANGED nonHapVars

\* gamepad.rs:160-164, in PreUpdate of the next pass; the rumble requests
\* of the last pass have been consumed by then
ClearHaptic ==
    /\ hapPhase = "post"
    /\ hapPhase' = "update"
    /\ hapOut' = [a \in HapActions |-> EmptyFeedbacks]
    /\ lastCleared' = (QueuedCount("a1") + QueuedCount("a2") > 0)
    /\ rumble' = EmptyBag
    /\ dispatched' = {}
    /\ UNCHANGED <<hapBindings, actionSet, connected>>
    /\ UNCHANGED nonHapVars

NextHaptic ==
    \/ \E a \in HapActions, e \in GamepadHapticValue : QueueAny(a, e)
    \/ \E a \in HapActions, p \in HapPaths, e \in GamepadHapticValue :
          QueueWithPath(a, p, e)
    \/ \E a \in HapActions, st \in {"enabled", "disabled", "missing"} :
          SetActionSet(a, st)
    \/ \E g \in Gamepads : ConnectGamepad(g)
    \/ \E g \in Gamepads : DisconnectGamepad(g)
    \/ SyncHaptics
    \/ ClearHaptic

SpecHaptic == InitHaptic /\ [][NextHaptic]_vars

(***************************************************************************)
(* Config load/save pipeline                                               *)
(***************************************************************************)
MaxReq == 2
MaxInject == 1

\* A Rust String is valid UTF-8; the texts the model draws from
Texts == {<<>>, <<"a">>, <<"b">>}

\* What a file can hold: any bytes; "X" stands for a byte sequence that is
\* not valid UTF-8
InvalidByte == "X"

NoFile == [kind |-> "missing", bytes |-> <<>>]
Directory == [kind |-> "dir", bytes |-> <<>>]
RegularFile(b) == [kind |-> "file", bytes |-> b]

\* What the world outside may leave at the config path
ForeignFiles == {NoFile, Directory, RegularFile(<<"a">>), RegularFile(<<InvalidByte>>)}
ParentStates == {"exists", "creatable", "blocked"}

\* PathBuf answering with a path also when no config directory is known
PathBufIgnoresFailure == Some("config_path")

\* config.rs:21-35, ConfigFilePath::path_buf: Some(path) unless the OS
\* config directory cannot be determined
PathBuf == IF configDir THEN Some("config_path") ELSE None

\* Path::is_file
IsFile(f) == f.kind = "file"

\* fs::read_to_string: Err when the bytes are not valid UTF-8
ReadToString(f) ==
    IF IsFile(f) /\ \A i \in 1..Len(f.bytes) : f.bytes[i] # InvalidByte
    THEN Some(f.bytes)
    ELSE None

\* fs::create_dir_all(dir): the directory afterwards
CreateDirAll(dir) == IF dir = "creatable" THEN "exists" ELSE dir

\* fs::write(path, text) succeeds: the directory is there and the path is
\* not itself a directory
WriteOk(dir, f) == dir = "exists" /\ f.kind # "dir"

\* FsWrite opening the file for append instead of truncating it
FsWriteAppend(dir, f, text) ==
    IF WriteOk(dir, f) THEN RegularFile(f.bytes \o text) ELSE f

\* fs::write(path, text): the file afterwards
FsWrite(dir, f, text) == IF WriteOk(dir, f) THEN RegularFile(text) ELSE f

PostUpdateSystems == {"load_config", "request_save_config", "serialize", "save_config"}

\* Before without the .after(PersistentBindingsSet::Serialize) of save_config
BeforeWithoutAfterSerialize(sys) ==
    CASE sys = "serialize" -> {"request_save_config"}
      [] OTHER -> {}

\* config.rs:50-67: the ordering constraints of the PostUpdate systems
Before(sys) ==
    CASE sys = "serialize" -> {"request_save_config"}
      [] sys = "save_config" -> {"serialize"}
      [] OTHER -> {}

Ready(sys) == cfgPhase = "post" /\ sys \notin ran /\ Before(sys) \subseteq ran

InitConfig ==
    /\ gpBinding = <<>>
    /\ bindOut = <<>>
    /\ configDir \in BOOLEAN
    /\ file \in ForeignFiles
    /\ parentDir \in ParentStates
    /\ parentDir # "exists" => file = NoFile
    /\ loadMsgs = 0
    /\ saveMsgs = 0
    /\ serializeReq = <<>>
    /\ serialized = <<>>
    /\ deserializeReq = <<>>
    /\ finished = 0
    /\ cfgPhase = "update"
    /\ ran = {}
    /\ passLog = <<>>
    /\ lastWrite = None
    /\ pathStr = <<>>
    /\ selector = <<>>
    /\ target = <<>>
    /\ side = <<>>
    /\ pathEvents = <<>>
    /\ parsed = {}
    /\ reparsed = {}
    /\ hapBindings = <<>>
    /\ hapOut = <<>>
    /\ actionSet = <<>>
    /\ connected = {}
    /\ rumble = <<>>
    /\ dispatched = {}
    /\ hapPhase = "idle"
    /\ lastCleared = FALSE
    /\ xrFeature = FALSE
    /\ alive = {}
    /\ components = <<>>
    /\ defaultBindings = <<>>
    /\ resetMsgs = <<>>
    /\ rstPhase = "idle"
    /\ edits = 0
    /\ snapAt = <<>>
    /\ lastReset = <<>>
    /\ bindingSource = <<>>
    /\ pathData = <<>>
    /\ pads = <<>>
    /\ syncOut = <<>>

cfgEnv == <<configDir, file, parentDir>>
cfgQueues == <<loadMsgs, saveMsgs, serializeReq, serialized, deserializeReq, finished>>

\* The application writes LoadSchminputConfig
SendLoadConfig ==
    /\ cfgPhase = "update"
    /\ loadMsgs < MaxReq
    /\ loadMsgs' = loadMsgs + 1
    /\ UNCHANGED <<cfgEnv, saveMsgs, serializeReq, serialized, deserializeReq,
                   finished, cfgPhase, ran, passLog, lastWrite>>
    /\ UNCHANGED nonCfgVars

\* The application writes SaveSchminputConfig
SendSaveConfig ==
    /\ cfgPhase = "update"
    /\ saveMsgs < MaxReq
    /\ saveMsgs' = saveMsgs + 1
    /\ UNCHANGED <<cfgEnv, loadMsgs, serializeReq, serialized, deserializeReq,
                   finished, cfgPhase, ran, passLog, lastWrite>>
    /\ UNCHANGED nonCfgVars

\* MessageWriter::write of FinnishedSchminputConfigSerialization
WriteSerialized(msgs, out) == Append(msgs, [output |-> out, age |-> 0])

\* the messages written since the last PostUpdate
Fresh(msgs) == SelectSeq(msgs, LAMBDA m : m.age = 0)

\* Some other system writes FinnishedSchminputConfigSerialization itself
SendSerialized(out) ==
    /\ cfgPhase = "update"
    /\ Len(Fresh(serialized)) < MaxInject
    /\ serialized' = WriteSerialized(serialized, out)
    /\ UNCHANGED <<cfgEnv, loadMsgs, saveMsgs, serializeReq, deserializeReq,
                   finished, cfgPhase, ran, passLog, lastWrite>>
    /\ UNCHANGED nonCfgVars

\* The world outside replaces what is at the config path
ChangeFile(f, dir) ==
    /\ cfgPhase = "update"
    /\ <<f, dir>> # <<file, parentDir>>
    /\ dir # "exists" => f = NoFile
    /\ file' = f
    /\ parentDir' = dir
    /\ lastWrite' = None
    /\ UNCHANGED <<configDir, cfgQueues, cfgPhase, ran, passLog>>
    /\ UNCHANGED nonCfgVars

\* The config directory the OS reports appears or disappears (or the
\* ConfigFilePath resource is replaced)
ChangeConfigDir ==
    /\ cfgPhase = "update"
    /\ configDir' = ~configDir
    /\ UNCHANGED <<file, parentDir, cfgQueues, cfgPhase, ran, passLog, lastWrite>>
    /\ UNCHANGED nonCfgVars

\* The PostUpdate schedule of a pass starts
BeginPostUpdate ==
    /\ cfgPhase = "update"
    /\ cfgPhase' = "post"
    /\ ran' = {}
    /\ UNCHANGED <<cfgEnv, cfgQueues, passLog, lastWrite>>
    /\ UNCHANGED nonCfgVars

\* LoadConfigWrites falling back to the empty text as request_save_config does
LoadConfigWritesLenient ==
    IF PathBuf = None THEN <<>>
    ELSE IF ReadToString(file) = None
    THEN <<[config |-> <<>>, afterWrite |-> lastWrite]>>
    ELSE <<[config |-> ReadToString(file)[1], afterWrite |-> lastWrite]>>

\* config.rs:118-137, the body of load_config: the messages it writes
LoadConfigWrites ==
    IF PathBuf = None THEN <<>>
    ELSE IF ~IsFile(file) THEN <<>>
    ELSE IF ReadToString(file) = None THEN <<>>
    ELSE <<[config |-> ReadToString(file)[1], afterWrite |-> lastWrite]>>

\* History of a pass: which system ran, how many messages it read and
\* wrote, how many of its messages were written in this pass, which of its
\* steps failed, and what it found at the config path
LogEntry(sys, read, wrote, fresh, failed) ==
    [sys |-> sys, read |-> read, wrote |-> wrote, fresh |-> fresh,
     failed |-> failed, fileKind |-> file.kind, dir |-> parentDir]

\* the steps of reading the config file that fail in the current state
ReadFailures ==
    IF PathBuf = None THEN {"path"}
    ELSE IF ~IsFile(file) THEN {"not_file"}
    ELSE IF ReadToString(file) = None THEN {"read"}
    ELSE {}

\* config.rs:52-54 and 118-142: load_config.run_if(on_message)
LoadConfig ==
    /\ Ready("load_config")
    /\ ran' = ran \cup {"load_config"}
    /\ loadMsgs' = 0
    /\ IF loadMsgs > 0
       THEN /\ deserializeReq' = deserializeReq \o LoadConfigWrites
            /\ passLog' = Append(passLog, LogEntry("load_config", loadMsgs,
                               Len(LoadConfigWrites), loadMsgs, ReadFailures))
       ELSE UNCHANGED <<deserializeReq, passLog>>
    /\ UNCHANGED <<cfgEnv, saveMsgs, serializeReq, serialized, finished,
                   cfgPhase, lastWrite>>
    /\ UNCHANGED nonCfgVars

\* RequestSaveWrites with one SerializeRequest for each SaveConfig message
RequestSaveWritesPerMessage ==
    IF PathBuf = None THEN <<>>
    ELSE [i \in 1..saveMsgs |->
             [base_config |-> IF ReadToString(file) = None THEN <<>>
                              ELSE ReadToString(file)[1]]]

\* RequestSaveWrites giving up on a missing or unreadable file as
\* load_config does
RequestSaveWritesStrict ==
    IF PathBuf = None THEN <<>>
    ELSE IF ~IsFile(file) THEN <<>>
    ELSE IF ReadToString(file) = None THEN <<>>
    ELSE <<[base_config |-> ReadToString(file)[1]]>>

\* config.rs:71-94, the body of request_save_config: the messages it writes
RequestSaveWrites ==
    IF PathBuf = None THEN <<>>
    ELSE IF ~IsFile(file) THEN <<[base_config |-> <<>>]>>
    ELSE IF ReadToString(file) = None THEN <<[base_config |-> <<>>]>>
    ELSE <<[base_config |-> ReadToString(file)[1]]>>

\* config.rs:58-60 and 71-94: request_save_config.run_if(on_message)
RequestSaveConfig ==
    /\ Ready("request_save_config")
    /\ ran' = ran \cup {"request_save_config"}
    /\ saveMsgs' = 0
    /\ IF saveMsgs > 0
       THEN /\ serializeReq' = serializeReq \o RequestSaveWrites
            /\ passLog' = Append(passLog, LogEntry("request_save_config", saveMsgs,
                               Len(RequestSaveWrites), saveMsgs, ReadFailures))
       ELSE UNCHANGED <<serializeReq, passLog>>
    /\ UNCHANGED <<cfgEnv, loadMsgs, serialized, deserializeReq, finished,
                   cfgPhase, lastWrite>>
    /\ UNCHANGED nonCfgVars

\* The serializer of PersistentBindingsSet::Serialize: it answers each
\* serialize request with one serialized output
Serialize(out) ==
    /\ Ready("serialize")
    /\ ran' = ran \cup {"serialize"}
    /\ serializeReq' = <<>>
    /\ IF serializeReq # <<>>
       THEN /\ serialized' = WriteSerialized(serialized, out)
            /\ passLog' = Append(passLog, LogEntry("serialize", Len(serializeReq), 1,
                                                   Len(serializeReq), {}))
       ELSE /\ out = <<>>
            /\ UNCHANGED <<serialized, passLog>>
    /\ UNCHANGED <<cfgEnv, loadMsgs, saveMsgs, deserializeReq, finished,
                   cfgPhase, lastWrite>>
    /\ UNCHANGED nonCfgVars

RECURSIVE WriteAll(_, _, _)
\* config.rs:111-114, the writes of the loop: the file after the outputs
\* were written in turn
WriteAll(dir, f, outs) ==
    IF outs = <<>> THEN f
    ELSE WriteAll(dir, FsWrite(dir, f, Head(outs).output), Tail(outs))

\* SaveConfigSignals with the signal written only after a write that succeeded
SaveConfigSignalsOnSuccess(outs) ==
    IF WriteOk(CreateDirAll(parentDir), file) THEN Len(outs) ELSE 0

\* config.rs:115: one finnish_signal.write_default() in each turn of the loop
SaveConfigSignals(outs) == Len(outs)

\* config.rs:65: on_message, true when a message was written since the
\* condition last looked (it looks in every pass)
OnSerialized == Fresh(serialized) # <<>>

\* the steps of save_config that fail in the current state
WriteFailures ==
    (IF CreateDirAll(parentDir) # "exists" THEN {"dir"} ELSE {})
      \cup (IF ~WriteOk(CreateDirAll(parentDir), file) THEN {"write"} ELSE {})

\* config.rs:64-66 and 95-117: save_config.run_if(on_message)
SaveConfig ==
    /\ Ready("save_config")
    /\ ran' = ran \cup {"save_config"}
    /\ IF OnSerialized /\ PathBuf # None
       THEN LET dir == CreateDirAll(parentDir)
                outs == serialized      \* all that the reader has not read
            IN  /\ parentDir' = dir
                /\ file' = WriteAll(dir, file, outs)
                /\ lastWrite' = IF WriteOk(dir, file)
                                THEN Some(outs[Len(outs)].output)
                                ELSE lastWrite
                /\ serialized' = <<>>
                /\ finished' = finished + SaveConfigSignals(outs)
                /\ passLog' = Append(passLog,
                       LogEntry("save_config", Len(outs), SaveConfigSignals(outs),
                                Len(Fresh(outs)), WriteFailures))
       ELSE /\ passLog' = IF OnSerialized
                          THEN Append(passLog,
                                   LogEntry("save_config", 0, 0,
                                            Len(Fresh(serialized)), {"path"}))
                          ELSE passLog
            /\ UNCHANGED <<file, parentDir, serialized, finished, lastWrite>>
    /\ UNCHANGED <<configDir, loadMsgs, saveMsgs, serializeReq, deserializeReq,
                   cfgPhase>>
    /\ UNCHANGED nonCfgVars

\* Messages::update: a message is dropped two updates after it was written
AgeMessages(msgs) ==
    LET kept == Fresh(msgs)
    IN  [i \in 1..Len(kept) |-> [kept[i] EXCEPT !.age = 1]]

\* The pass ends; the message buffers rotate before the next PostUpdate
EndPass ==
    /\ cfgPhase = "post"
    /\ ran = PostUpdateSystems
    /\ cfgPhase' = "update"
    /\ serialized' = AgeMessages(serialized)
    /\ deserializeReq' = <<>>
    /\ finished' = 0
    /\ passLog' = <<>>
    /\ UNCHANGED <<cfgEnv, loadMsgs, saveMsgs, serializeReq, ran, lastWrite>>
    /\ UNCHANGED nonCfgVars

NextConfig ==
    \/ SendLoadConfig
    \/ SendSaveConfig
    \/ \E out \in Texts : SendSerialized(out)
    \/ \E f \in ForeignFiles, dir \in ParentStates : ChangeFile(f, dir)
    \/ ChangeConfigDir
    \/ BeginPostUpdate
    \/ LoadConfig
    \/ RequestSaveConfig
    \/ \E out \in Texts : Serialize(out)
    \/ SaveConfig
    \/ EndPass

SpecConfig == InitConfig /\ [][NextConfig]_vars

(***************************************************************************)
(* Default bindings and reset                                              *)
(***************************************************************************)
MaxEdits == 2
MaxResetMsgs == 2

RstActions == {"x1", "x2"}
SnapEnts == {"s1", "s2"}
Entities == RstActions \cup SnapEnts

\* The entity Commands::spawn_empty hands out for the snapshot of an action
SpawnedFor(a) == IF a = "x1" THEN "s1" ELSE "s2"

\* KeyboardBindings, GamepadBindings, MouseBindings, OxrBindings
BindingTypes == {"keyboard", "gamepad", "mouse", "xr"}
Collections == {"c1", "c2"}
OptCollections == {None} \cup {Some(c) : c \in Collections}

\* default_bindings.rs:27-30, 69, 104, 137: OxrBindings is queried, copied
\* and restored only with feature "xr"; without it the type does not exist
BuildTypes(xr) == IF xr THEN BindingTypes ELSE BindingTypes \ {"xr"}

NoComponents == [t \in BindingTypes |-> None]

\* The binding collections an action is set up with before PostStartup
StartProfiles(xr) ==
    {[keyboard |-> Some("c1"), gamepad |-> Some("c1"), mouse |-> None, xr |-> None],
     [keyboard |-> None, gamepad |-> Some("c2"), mouse |-> Some("c1"),
      xr |-> IF xr THEN Some("c1") ELSE None]}

ResetAll == <<"All">>
ResetAction(a) == <<"Action", a>>
ResetMessages == {ResetAll} \cup {ResetAction(a) : a \in RstActions}

NoHistory == <<>>

InitReset ==
    /\ gpBinding = <<>>
    /\ bindOut = <<>>
    /\ xrFeature \in BOOLEAN
    /\ alive \in {{"x1"}, {"x1", "x2"}}
    /\ components \in [Entities -> StartProfiles(xrFeature) \cup {NoComponents}]
    /\ \A e \in Entities : components[e] = NoComponents <=> e \notin alive
    /\ defaultBindings = [a \in RstActions |-> None]
    /\ resetMsgs = <<>>
    /\ rstPhase = "startup"
    /\ edits = 0
    /\ snapAt = NoHistory
    /\ lastReset = NoHistory
    /\ bindingSource = <<>>
    /\ pathData = <<>>
    /\ pads = <<>>
    /\ syncOut = <<>>
    /\ pathStr = <<>>
    /\ selector = <<>>
    /\ target = <<>>
    /\ side = <<>>
    /\ pathEvents = <<>>
    /\ parsed = {}
    /\ reparsed = {}
    /\ hapBindings = <<>>
    /\ hapOut = <<>>
    /\ actionSet = <<>>
    /\ connected = {}
    /\ rumble = <<>>
    /\ dispatched = {}
    /\ hapPhase = "idle"
    /\ lastCleared = FALSE
    /\ configDir = TRUE
    /\ file = <<>>
    /\ parentDir = "exists"
    /\ loadMsgs = 0
    /\ saveMsgs = 0
    /\ serializeReq = <<>>
    /\ serialized = <<>>
    /\ deserializeReq = <<>>
    /\ finished = 0
    /\ cfgPhase = "idle"
    /\ ran = {}
    /\ passLog = <<>>
    /\ lastWrite = <<>>

\* default_bindings.rs:127-141: the snapshot holds a clone of each
\* collection the entity has, of the types of the build
SnapshotOf(comps) ==
    [t \in BindingTypes |-> IF t \in BuildTypes(xrFeature) THEN comps[t] ELSE None]

\* default_bindings.rs:115-145, run once in PostStartup: the query holds
\* only optional components, so it matches every entity there is
CopyDefaultBindings ==
    /\ rstPhase = "startup"
    /\ rstPhase' = "update"
    /\ alive' = alive \cup {SpawnedFor(a) : a \in alive}
    /\ components' = [e \in Entities |->
            IF \E a \in alive : e = SpawnedFor(a)
            THEN SnapshotOf(components[CHOOSE a \in alive : e = SpawnedFor(a)])
            ELSE components[e]]
    /\ defaultBindings' = [a \in RstActions |->
            IF a \in alive THEN Some(SpawnedFor(a)) ELSE defaultBindings[a]]
    /\ snapAt' = [a \in alive |->
            [link |-> SpawnedFor(a), held |-> SnapshotOf(components[a])]]
    /\ UNCHANGED <<xrFeature, resetMsgs, edits, lastReset>>
    /\ UNCHANGED nonRstVars

\* The application spawns an action after startup
SpawnAction(a, comps) ==
    /\ rstPhase = "update"
    /\ a \notin alive
    /\ alive' = alive \cup {a}
    /\ components' = [components EXCEPT ![a] = comps]
    /\ lastReset' = NoHistory
    /\ UNCHANGED <<xrFeature, defaultBindings, resetMsgs, rstPhase, edits, snapAt>>
    /\ UNCHANGED nonRstVars

\* The application rebinds: it inserts, replaces or removes one binding
\* collection of a live action
EditBinding(a, t, v) ==
    /\ rstPhase = "update"
    /\ a \in alive
    /\ t \in BuildTypes(xrFeature)
    /\ edits < MaxEdits
    /\ components[a][t] # v
    /\ components' = [components EXCEPT ![a][t] = v]
    /\ edits' = edits + 1
    /\ lastReset' = NoHistory
    /\ UNCHANGED <<xrFeature, alive, defaultBindings, resetMsgs, rstPhase, snapAt>>
    /\ UNCHANGED nonRstVars

\* The application writes ResetToDefautlBindings
SendReset(m) ==
    /\ rstPhase = "update"
    /\ Len(resetMsgs) < MaxResetMsgs
    /\ resetMsgs' = Append(resetMsgs, m)
    /\ lastReset' = NoHistory
    /\ UNCHANGED <<xrFeature, alive, components, defaultBindings, rstPhase, edits,
                   snapAt>>
    /\ UNCHANGED nonRstVars

\* Restore without the remove branches: absent types are left alone
RestoreInsertOnly(comps, world, action, snapshot) ==
    [comps EXCEPT ![action] =
        [t \in BindingTypes |->
            IF t \notin BuildTypes(xrFeature) THEN comps[action][t]
            ELSE IF world[snapshot][t] # None THEN world[snapshot][t]
            ELSE comps[action][t]]]

\* Restore with source and destination swapped: the action overwrites
\* its snapshot
RestoreReversed(comps, world, action, snapshot) ==
    [comps EXCEPT ![snapshot] =
        [t \in BindingTypes |->
            IF t \notin BuildTypes(xrFeature) THEN comps[snapshot][t]
            ELSE world[action][t]]]

\* default_bindings.rs:52-74 and 87-109: per type, insert a clone of the
\* snapshot's collection or remove the action's. `world` is what the
\* queries read, `comps` what the queued commands have built so far.
Restore(comps, world, action, snapshot) ==
    [comps EXCEPT ![action] =
        [t \in BindingTypes |->
            IF t \notin BuildTypes(xrFeature) THEN comps[action][t]
            ELSE IF world[snapshot][t] # None THEN world[snapshot][t]
            ELSE None]]

\* RestoreLinked treating a missing snapshot link as an empty snapshot
RestoreLinkedOrClear(comps, world, action) ==
    IF defaultBindings[action] = None
    THEN [comps EXCEPT ![action] = NoComponents]
    ELSE IF defaultBindings[action][1] \notin alive THEN comps
    ELSE Restore(comps, world, action, defaultBindings[action][1])

\* default_bindings.rs:48 and 83, default_bindings_query.get(bindings.0)
RestoreLinked(comps, world, action) ==
    IF defaultBindings[action] = None THEN comps
    ELSE IF defaultBindings[action][1] \notin alive THEN comps
    ELSE Restore(comps, world, action, defaultBindings[action][1])

RECURSIVE RestoreEach(_, _, _)
\* default_bindings.rs:46-75, the loop of ResetToDefautlBindings::All
RestoreEach(comps, world, actions) ==
    IF actions = {} THEN comps
    ELSE LET a == CHOOSE x \in actions : TRUE
         IN  RestoreEach(RestoreLinked(comps, world, a), world, actions \ {a})

\* ApplyReset with Action(id) falling through to the All branch
ApplyResetAlwaysAll(comps, world, m) ==
    RestoreEach(comps, world, {a \in RstActions : defaultBindings[a] # None})

\* default_bindings.rs:44-111, one message
ApplyReset(comps, world, m) ==
    IF m = ResetAll
    THEN RestoreEach(comps, world, {a \in RstActions : defaultBindings[a] # None})
    ELSE RestoreLinked(comps, world, m[2])

\* ApplyResets that handles the first message only
ApplyResetsFirstOnly(comps, world, msgs) ==
    IF msgs = <<>> THEN comps ELSE ApplyReset(comps, world, Head(msgs))

RECURSIVE ApplyResets(_, _, _)
\* default_bindings.rs:43-112, the loop over message.read()
ApplyResets(comps, world, msgs) ==
    IF msgs = <<>> THEN comps
    ELSE ApplyResets(ApplyReset(comps, world, Head(msgs)), world, Tail(msgs))

\* default_bindings.rs:32-113: reset_bindings reads every message and its
\* commands are applied when it ends
ResetBindings ==
    /\ rstPhase = "update"
    /\ resetMsgs # <<>>
    /\ components' = ApplyResets(components, components, resetMsgs)
    /\ resetMsgs' = <<>>
    /\ lastReset' = [msgs |-> resetMsgs, before |-> components]
    /\ UNCHANGED <<xrFeature, alive, defaultBindings, rstPhase, edits, snapAt>>
    /\ UNCHANGED nonRstVars

NextReset ==
    \/ CopyDefaultBindings
    \/ \E a \in RstActions, comps \in StartProfiles(xrFeature) : SpawnAction(a, comps)
    \/ \E a \in RstActions, t \in BindingTypes, v \in OptCollections :
          EditBinding(a, t, v)
    \/ \E m \in ResetMessages : SendReset(m)
    \/ ResetBindings

SpecReset == InitReset /\ [][NextReset]_vars

(***************************************************************************)
(* Input sync: the region filter and the device selection of sync_actions  *)
(***************************************************************************)
\* gamepad.rs:510-566; OtherAxis(u8) and OtherButton(u8) by one sample each
GamepadBindingSource ==
    {"LeftStickX", "LeftStickY", "RightStickX", "RightStickY",
     "South", "East", "North", "West",
     "LeftTrigger", "LeftSecondaryTrigger", "RightTrigger", "RightSecondaryTrigger",
     "LeftStickClick", "RightStickClick",
     "DPadUp", "DPadDown", "DPadLeft", "DPadRight",
     "Select", "Start", "Mode", "LeftZ", "RightZ", "C", "Z",
     "OtherAxis(0)", "OtherButton(0)"}

OptSides == {None} \cup {Some(s) : s \in GamepadPathTargetSide}
SomeSides == {Some(s) : s \in GamepadPathTargetSide}

\* gamepad.rs:700-786, the arms of the match that yield true, in the order
\* of the source; an arm with Some(_) stands for both sides
MatchArms ==
    {<<"Thumbstick", None, src>> :
        src \in {"LeftStickX", "LeftStickY", "RightStickX", "RightStickY"}}
      \cup {<<"Thumbstick", Some("Left"), "LeftStickX">>,
            <<"Thumbstick", Some("Left"), "LeftStickY">>,
            <<"Thumbstick", Some("Right"), "RightStickX">>,
            <<"Thumbstick", Some("Right"), "RightStickY">>}
      \cup {<<"Trigger", None, "LeftTrigger">>,
            <<"Trigger", None, "RightTrigger">>,
            <<"Trigger", Some("Left"), "LeftTrigger">>,
            <<"Trigger", Some("Right"), "RightTrigger">>}
      \cup {<<"SecondaryTrigger", None, "LeftSecondaryTrigger">>,
            <<"SecondaryTrigger", None, "RightSecondaryTrigger">>,
            <<"SecondaryTrigger", Some("Left"), "LeftSecondaryTrigger">>,
            <<"SecondaryTrigger", Some("Right"), "RightSecondaryTrigger">>}
      \cup {<<"Thumbstick", None, "LeftStickClick">>,
            <<"Thumbstick", None, "RightStickClick">>,
            <<"Thumbstick", Some("Left"), "LeftStickClick">>,
            <<"Thumbstick", Some("Right"), "RightStickClick">>}
      \cup {<<"Buttons", None, src>> : src \in {"South", "East", "North", "West"}}
      \cup {<<"Buttons", s, src>> :
                s \in SomeSides, src \in {"South", "East", "North", "West"}}
      \cup {<<"Dpad", None, src>> :
                src \in {"DPadUp", "DPadDown", "DPadLeft", "DPadRight"}}
      \cup {<<"Dpad", s, src>> :
                s \in SomeSides, src \in {"DPadUp", "DPadDown", "DPadLeft", "DPadRight"}}

\* Matches without the Some(_) arms of Buttons and Dpad
MatchesSideStrict(tgt, tside, source) ==
    /\ <<tgt, tside, source>> \in MatchArms
    /\ tgt \in {"Buttons", "Dpad"} => tside = None

\* gamepad.rs:694-789, GamepadPathTarget::matches
Matches(tgt, tside, source) == <<tgt, tside, source>> \in MatchArms

\* RegionFilter with is_some_and in place of is_none_or
RegionFilterRequiresRegion(source, data) ==
    data.tgt # None /\ Matches(data.tgt[1], data.side, source)

\* gamepad.rs:273-275, the filter closure handed to ProviderParam::run
RegionFilter(source, data) ==
    data.tgt = None \/ Matches(data.tgt[1], data.side, source)

\* gamepad.rs:277-280: the selector of the path, All without path data
DeviceOf(path_data) ==
    IF path_data = None THEN SelAll ELSE path_data[1].sel[1]

\* the gamepads of the iteration that carry the identifier id
Tagged(order, id) == SelectSeq(order, LAMBDA g : pads[g] = Some(id))

\* EvaluateBinding falling back to every gamepad when none carries the
\* identifier
EvaluateBindingFallbackAll(path_data, order) ==
    LET device == DeviceOf(path_data) IN
    IF device = SelAll THEN order
    ELSE IF Tagged(order, device[2]) = <<>> THEN order
    ELSE <<Head(Tagged(order, device[2]))>>

\* gamepad.rs:276-304, the closure that computes the values of a binding:
\* the gamepads a value is pushed for, in the order of the pushes; order is
\* the order in which gamepads.iter() yields the connected gamepads
EvaluateBinding(path_data, order) ==
    LET device == DeviceOf(path_data) IN
    IF device = SelAll THEN order
    ELSE IF Tagged(order, device[2]) = <<>> THEN <<>>
    ELSE <<Head(Tagged(order, device[2]))>>

\* ProviderParam::run for the binding and the requested subaction path,
\* which carries a GamepadPathSelector: the binding is evaluated for the
\* path when the filter closure accepts the path's data
ProviderRun(order) ==
    LET data == pathData
        evaluated == RegionFilter(bindingSource, data)
    IN  [order |-> order,
         matched |-> IF data.tgt = None THEN None
                     ELSE Some(Matches(data.tgt[1], data.side, bindingSource)),
         evaluated |-> evaluated,
         values |-> IF evaluated THEN EvaluateBinding(Some(data), order) ELSE <<>>]

\* the orders in which a query can yield the gamepads of S
Orders(S) ==
    {o \in [1..Cardinality(S) -> S] : \A i, j \in 1..Cardinality(S) : o[i] = o[j] => i = j}

Identifiers == {<<"0">>, <<"one">>}
OptIdentifiers == {None} \cup {Some(id) : id \in Identifiers}

\* The components a path with a gamepad selector can carry: what the parser
\* attaches and what the application inserts itself (the components are
\* public)
PathDatas ==
    [sel : {Some(SelAll)} \cup {Some(SelGamepad(id)) : id \in Identifiers},
     tgt : {None} \cup {Some(r) : r \in GamepadPathTarget},
     side : OptSides]

InitSync ==
    /\ gpBinding = <<>>
    /\ bindOut = <<>>
    /\ bindingSource \in GamepadBindingSource
    /\ pathData \in PathDatas
    /\ pads = <<>>
    /\ syncOut = None
    /\ pathStr = <<>>
    /\ selector = <<>>
    /\ target = <<>>
    /\ side = <<>>
    /\ pathEvents = <<>>
    /\ parsed = {}
    /\ reparsed = {}
    /\ hapBindings = <<>>
    /\ hapOut = <<>>
    /\ actionSet = <<>>
    /\ connected = {}
    /\ rumble = <<>>
    /\ dispatched = {}
    /\ hapPhase = "idle"
    /\ lastCleared = FALSE
    /\ configDir = TRUE
    /\ file = <<>>
    /\ parentDir = "exists"
    /\ loadMsgs = 0
    /\ saveMsgs = 0
    /\ serializeReq = <<>>
    /\ serialized = <<>>
    /\ deserializeReq = <<>>
    /\ finished = 0
    /\ cfgPhase = "idle"
    /\ ran = {}
    /\ passLog = <<>>
    /\ lastWrite = <<>>
    /\ xrFeature = FALSE
    /\ alive = {}
    /\ components = <<>>
    /\ defaultBindings = <<>>
    /\ resetMsgs = <<>>
    /\ rstPhase = "idle"
    /\ edits = 0
    /\ snapAt = <<>>
    /\ lastReset = <<>>

\* A gamepad is connected, with or without a GamepadIdentifier
SyncConnect(g, id) ==
    /\ syncOut = None
    /\ g \notin DOMAIN pads
    /\ pads' = [h \in DOMAIN pads \cup {g} |-> IF h = g THEN id ELSE pads[h]]
    /\ UNCHANGED <<bindingSource, pathData, syncOut>>
    /\ UNCHANGED nonSyncVars

\* A gamepad is disconnected
SyncDisconnect(g) ==
    /\ syncOut = None
    /\ g \in DOMAIN pads
    /\ pads' = [h \in DOMAIN pads \ {g} |-> pads[h]]
    /\ UNCHANGED <<bindingSource, pathData, syncOut>>
    /\ UNCHANGED nonSyncVars

\* gamepad.rs:261-307, sync_actions in PreUpdate
SyncActions(order) ==
    /\ syncOut = None
    /\ syncOut' = Some(ProviderRun(order))
    /\ UNCHANGED <<bindingSource, pathData, pads>>
    /\ UNCHANGED nonSyncVars

\* The pass ends; the values of the actions are cleared before the next
\* sync_actions
SyncEndPass ==
    /\ syncOut # None
    /\ syncOut' = None
    /\ UNCHANGED <<bindingSource, pathData, pads>>
    /\ UNCHANGED nonSyncVars

NextSync ==
    \/ \E g \in Gamepads, id \in OptIdentifiers : SyncConnect(g, id)
    \/ \E g \in Gamepads : SyncDisconnect(g)
    \/ \E order \in Orders(DOMAIN pads) : SyncActions(order)
    \/ SyncEndPass

SpecSync == InitSync /\ [][NextSync]_vars

(***************************************************************************)
(* Binding evaluation: binding ids, the conversions of a binding source    *)
(* and handle_gamepad_inputs_new                                           *)
(***************************************************************************)
\* bevy's GamepadAxis as from_axis enumerates it; Other(u8) by one sample
GamepadAxis ==
    {"LeftStickX", "LeftStickY", "RightStickX", "RightStickY", "LeftZ", "RightZ",
     "Other(0)"}

\* bevy's GamepadButton as from_button enumerates it; Other(u8) by one sample
GamepadButton ==
    {"South", "East", "North", "West",
     "LeftTrigger2", "LeftTrigger", "RightTrigger2", "RightTrigger",
     "LeftThumb", "RightThumb", "DPadUp", "DPadDown", "DPadLeft", "DPadRight",
     "Select", "Start", "Mode", "C", "Z", "Other(0)"}

\* the value a match gives for key: Some(value) of the arm <<key, value>>,
\* None when no arm has the key
Lookup(arms, key) ==
    IF \E arm \in arms : arm[1] = key
    THEN Some((CHOOSE arm \in arms : arm[1] = key)[2])
    ELSE None

\* gamepad.rs:615-621, the arms of as_axis_type
AsAxisArms ==
    {<<"LeftStickX", "LeftStickX">>, <<"LeftStickY", "LeftStickY">>,
     <<"RightStickX", "RightStickX">>, <<"RightStickY", "RightStickY">>,
     <<"LeftZ", "LeftZ">>, <<"RightZ", "RightZ">>,
     <<"OtherAxis(0)", "Other(0)">>}

\* gamepad.rs:613-624
AsAxisType(source) == Lookup(AsAxisArms, source)

\* gamepad.rs:627-633, the arms of from_axis
FromAxisArms ==
    {<<"LeftStickX", "LeftStickX">>, <<"LeftStickY", "LeftStickY">>,
     <<"RightStickX", "RightStickX">>, <<"RightStickY", "RightStickY">>,
     <<"LeftZ", "LeftZ">>, <<"RightZ", "RightZ">>,
     <<"Other(0)", "OtherAxis(0)">>}

\* gamepad.rs:625-635
FromAxis(axis) == Lookup(FromAxisArms, axis)[1]

\* gamepad.rs:639-658, the arms of as_button_type
AsButtonArms ==
    {<<"South", "South">>, <<"East", "East">>, <<"North", "North">>,
     <<"West", "West">>,
     <<"LeftTrigger", "LeftTrigger2">>,
     <<"LeftSecondaryTrigger", "LeftTrigger">>,
     <<"RightTrigger", "RightTrigger2">>,
     <<"RightSecondaryTrigger", "RightTrigger">>,
     <<"LeftStickClick", "LeftThumb">>, <<"RightStickClick", "RightThumb">>,
     <<"DPadUp", "DPadUp">>, <<"DPadDown", "DPadDown">>,
     <<"DPadLeft", "DPadLeft">>, <<"DPadRight", "DPadRight">>,
     <<"Select", "Select">>, <<"Start", "Start">>, <<"Mode", "Mode">>,
     <<"C", "C">>, <<"Z", "Z">>,
     <<"OtherButton(0)", "Other(0)">>}

\* as_button_type without its arm for OtherButton
AsButtonTypeNoOther(source) ==
    Lookup(AsButtonArms \ {<<"OtherButton(0)", "Other(0)">>}, source)

\* gamepad.rs:637-661
AsButtonType(source) == Lookup(AsButtonArms, source)

\* gamepad.rs:664-683, the arms of from_button
FromButtonArms ==
    {<<"South", "South">>, <<"East", "East">>, <<"North", "North">>,
     <<"West", "West">>,
     <<"LeftTrigger2", "LeftTrigger">>,
     <<"LeftTrigger", "LeftSecondaryTrigger">>,
     <<"RightTrigger2", "RightTrigger">>,
     <<"RightTrigger", "RightSecondaryTrigger">>,
     <<"LeftThumb", "LeftStickClick">>, <<"RightThumb", "RightStickClick">>,
     <<"DPadUp", "DPadUp">>, <<"DPadDown", "DPadDown">>,
     <<"DPadLeft", "DPadLeft">>, <<"DPadRight", "DPadRight">>,
     <<"Select", "Select">>, <<"Start", "Start">>, <<"Mode", "Mode">>,
     <<"C", "C">>, <<"Z", "Z">>,
     <<"Other(0)", "OtherButton(0)">>}

\* from_button that maps each trigger button to the source of the same name
FromButtonTriggersStraight(button) ==
    CASE button = "LeftTrigger" -> "LeftTrigger"
      [] button = "RightTrigger" -> "RightTrigger"
      [] button = "LeftTrigger2" -> "LeftSecondaryTrigger"
      [] button = "RightTrigger2" -> "RightSecondaryTrigger"
      [] OTHER -> Lookup(FromButtonArms, button)[1]

\* gamepad.rs:662-685
FromButton(button) == Lookup(FromButtonArms, button)[1]

\* gamepad.rs:567-575, impl From<GamepadBindingSource> for GamepadInput; the
\* kind "unreachable" is the panic of unreachable!()
IntoGamepadInput(value) ==
    LET a == AsAxisType(value)
        b == AsButtonType(value)
    IN  IF a = None /\ b # None THEN [kind |-> "Button", v |-> b[1]]
        ELSE IF a # None /\ b = None THEN [kind |-> "Axis", v |-> a[1]]
        ELSE [kind |-> "unreachable", v |-> ""]

ButtonInputBeheavior == {"JustPressed", "Pressed", "JustReleased"}
InputAxis == {"X", "Y"}
InputAxisDirection == {"Positive", "Negative"}

\* gamepad.rs:455-461
GamepadBinding ==
    [source : GamepadBindingSource, button_behavior : ButtonInputBeheavior,
     axis : InputAxis, axis_dir : InputAxisDirection]

\* gamepad.rs:510-566: the variants in the order of their declaration
SourceOrder ==
    <<"LeftStickX", "LeftStickY", "RightStickX", "RightStickY",
      "South", "East", "North", "West",
      "LeftTrigger", "LeftSecondaryTrigger", "RightTrigger", "RightSecondaryTrigger",
      "LeftStickClick", "RightStickClick",
      "DPadUp", "DPadDown", "DPadLeft", "DPadRight",
      "Select", "Start", "Mode", "LeftZ", "RightZ", "C", "Z",
      "OtherAxis(0)", "OtherButton(0)">>

\* the place of x in the sequence order, counted from 0
PlaceIn(order, x) == (CHOOSE i \in 1..Len(order) : order[i] = x) - 1

\* #[derive(Hash)] of GamepadBindingSource: what hash() writes to the
\* hasher, the discriminant and then the payload of OtherAxis / OtherButton
SourceFeed(source) ==
    IF source \in {"OtherAxis(0)", "OtherButton(0)"}
    THEN <<PlaceIn(SourceOrder, source), 0>>
    ELSE <<PlaceIn(SourceOrder, source)>>

\* DefaultHasher::finish: a fixed function of the values written, here a
\* polynomial fold kept to sixteen bits
RECURSIVE Finish(_, _)
Finish(feed, h) ==
    IF feed = <<>> THEN h
    ELSE Finish(Tail(feed), (h * 31 + Head(feed) + 1) % 65536)

\* get_binding_id that hashes the whole binding, as #[derive(Hash)] of
\* GamepadBinding writes it: source, button_behavior, axis, axis_dir
GetBindingIdWholeBinding(b) ==
    Finish(SourceFeed(b.source)
             \o <<PlaceIn(<<"JustPressed", "Pressed", "JustReleased">>, b.button_behavior),
                  PlaceIn(<<"X", "Y">>, b.axis),
                  PlaceIn(<<"Positive", "Negative">>, b.axis_dir)>>, 0)

\* gamepad.rs:54-58
GetBindingId(b) == Finish(SourceFeed(b.source), 0)

\* GenericBindingData with its modifications flattened
GenericBindingData ==
    [is_bool : BOOLEAN, is_f32 : BOOLEAN, is_vec2 : BOOLEAN,
     premul_delta_time : BOOLEAN, unbounded : BOOLEAN]

\* What a gamepad answers for the input of the binding: gamepad.get and
\* gamepad.get_unclamped, each None or a value in tenths
GamepadReadings ==
    {[get |-> None, get_unclamped |-> None],
     [get |-> None, get_unclamped |-> Some(15)],
     [get |-> Some(10), get_unclamped |-> None],
     [get |-> Some(-10), get_unclamped |-> Some(-15)],
     [get |-> Some(1), get_unclamped |-> Some(1)],
     [get |-> Some(2), get_unclamped |-> Some(2)]}

\* time.delta_secs() of a pass
DeltaSecs == {0, 3}

\* InputAxisDirection::as_multipier
AsMultipier(axis_dir) == IF axis_dir = "Positive" THEN 1 ELSE -1

\* the delta multiplier with the premul_delta_time flag ignored
DeltaMultiplierAlways(data, delta) == delta

\* gamepad.rs:315-318
DeltaMultiplier(data, delta) == IF data.premul_delta_time THEN delta ELSE 1

\* gamepad.rs:319-322
Reading(gamepad, data) ==
    IF data.unbounded THEN gamepad.get_unclamped ELSE gamepad.get

Vec2(x, y) == [x |-> x, y |-> y]

\* BindingValue::default()
BindingValueDefault == [vec2 |-> None, bool |-> None, f32 |-> None]

\* gamepad.rs:325-334: the projections of the reading v (in tenths, so that
\* v > 0.1 reads v > 1)
Project(v, b, data, delta_multiplier) ==
    LET scaled == v * AsMultipier(b.axis_dir) * delta_multiplier
    IN  [bool |-> IF data.is_bool THEN Some(v > 1) ELSE None,
         f32 |-> IF data.is_f32 THEN Some(scaled) ELSE None,
         vec2 |-> IF data.is_vec2
                  THEN Some(IF b.axis = "X" THEN Vec2(scaled, 0) ELSE Vec2(0, scaled))
                  ELSE None]

\* handle_gamepad_inputs_new that takes a missing reading for 0.0
HandleGamepadInputsNewZeroReading(gamepad, b, data, delta) ==
    LET r == Reading(gamepad, data)
    IN  Project(IF r = None THEN 0 ELSE r[1], b, data, DeltaMultiplier(data, delta))

\* gamepad.rs:309-335
HandleGamepadInputsNew(gamepad, b, data, delta) ==
    LET r == Reading(gamepad, data)
    IN  IF r = None THEN BindingValueDefault
        ELSE Project(r[1], b, data, DeltaMultiplier(data, delta))

NoOp == [op |-> "none"]

InitBinding ==
    /\ gpBinding \in GamepadBinding
    /\ bindOut = NoOp
    /\ pathStr = <<>>
    /\ selector = <<>>
    /\ target = <<>>
    /\ side = <<>>
    /\ pathEvents = <<>>
    /\ parsed = {}
    /\ reparsed = {}
    /\ hapBindings = <<>>
    /\ hapOut = <<>>
    /\ actionSet = <<>>
    /\ connected = {}
    /\ rumble = <<>>
    /\ dispatched = {}
    /\ hapPhase = "idle"
    /\ lastCleared = FALSE
    /\ configDir = TRUE
    /\ file = <<>>
    /\ parentDir = "exists"
    /\ loadMsgs = 0
    /\ saveMsgs = 0
    /\ serializeReq = <<>>
    /\ serialized = <<>>
    /\ deserializeReq = <<>>
    /\ finished = 0
    /\ cfgPhase = "idle"
    /\ ran = {}
    /\ passLog = <<>>
    /\ lastWrite = <<>>
    /\ xrFeature = FALSE
    /\ alive = {}
    /\ components = <<>>
    /\ defaultBindings = <<>>
    /\ resetMsgs = <<>>
    /\ rstPhase = "idle"
    /\ edits = 0
    /\ snapAt = <<>>
    /\ lastReset = <<>>
    /\ bindingSource = <<>>
    /\ pathData = <<>>
    /\ pads = <<>>
    /\ syncOut = <<>>

\* gamepad.rs:473-486, button_just_pressed / button_pressed / button_just_released
SetButtonBehavior(bb) ==
    /\ bindOut.op \in {"none", "id"}
    /\ gpBinding' = [gpBinding EXCEPT !.button_behavior = bb]
    /\ UNCHANGED bindOut
    /\ UNCHANGED nonBindVars

\* gamepad.rs:488-496, x_axis / y_axis
SetAxis(axis) ==
    /\ bindOut.op \in {"none", "id"}
    /\ gpBinding' = [gpBinding EXCEPT !.axis = axis]
    /\ UNCHANGED bindOut
    /\ UNCHANGED nonBindVars

\* gamepad.rs:498-506, positive / negative
SetAxisDir(dir) ==
    /\ bindOut.op \in {"none", "id"}
    /\ gpBinding' = [gpBinding EXCEPT !.axis_dir = dir]
    /\ UNCHANGED bindOut
    /\ UNCHANGED nonBindVars

\* the provider asks for the id of the binding
IdentifyBinding ==
    /\ bindOut.op \in {"none", "id"}
    /\ bindOut' = [op |-> "id", binding |-> gpBinding, id |-> GetBindingId(gpBinding)]
    /\ UNCHANGED gpBinding
    /\ UNCHANGED nonBindVars

\* one call of handle_gamepad_inputs_new; gamepad.get converts the source
\* with Into<GamepadInput> first
EvaluateInputs(gamepad, data, delta) ==
    /\ bindOut.op = "none"
    /\ bindOut' = [op |-> "value", gamepad |-> gamepad, data |-> data, delta |-> delta,
                   input |-> IntoGamepadInput(gpBinding.source),
                   value |-> HandleGamepadInputsNew(gamepad, gpBinding, data, delta)]
    /\ UNCHANGED gpBinding
    /\ UNCHANGED nonBindVars

ConvertSource ==
    /\ bindOut.op = "none"
    /\ bindOut' = [op |-> "into", input |-> IntoGamepadInput(gpBinding.source)]
    /\ UNCHANGED gpBinding
    /\ UNCHANGED nonBindVars

SourceAsAxis ==
    /\ bindOut.op = "none"
    /\ bindOut' = [op |-> "as_axis_type", result |-> AsAxisType(gpBinding.source)]
    /\ UNCHANGED gpBinding
    /\ UNCHANGED nonBindVars

SourceAsButton ==
    /\ bindOut.op = "none"
    /\ bindOut' = [op |-> "as_button_type", result |-> AsButtonType(gpBinding.source)]
    /\ UNCHANGED gpBinding
    /\ UNCHANGED nonBindVars

SourceFromAxis(axis) ==
    /\ bindOut.op = "none"
    /\ bindOut' = [op |-> "from_axis", arg |-> axis, result |-> FromAxis(axis)]
    /\ UNCHANGED gpBinding
    /\ UNCHANGED nonBindVars

SourceFromButton(button) ==
    /\ bindOut.op = "none"
    /\ bindOut' = [op |-> "from_button", arg |-> button, result |-> FromButton(button)]
    /\ UNCHANGED gpBinding
    /\ UNCHANGED nonBindVars

\* the result has been used; the next operation starts
BindEndPass ==
    /\ bindOut.op # "none"
    /\ bindOut' = NoOp
    /\ UNCHANGED gpBinding
    /\ UNCHANGED nonBindVars

NextBinding ==
    \/ \E bb \in ButtonInputBeheavior : SetButtonBehavior(bb)
    \/ \E axis \in InputAxis : SetAxis(axis)
    \/ \E dir \in InputAxisDirection : SetAxisDir(dir)
    \/ IdentifyBinding
    \/ \E gamepad \in GamepadReadings, data \in GenericBindingData, delta \in DeltaSecs :
          EvaluateInputs(gamepad, data, delta)
    \/ ConvertSource
    \/ SourceAsAxis
    \/ SourceAsButton
    \/ \E axis \in GamepadAxis : SourceFromAxis(axis)
    \/ \E button \in GamepadButton : SourceFromButton(button)
    \/ BindEndPass

SpecBinding == InitBinding /\ [][NextBinding]_vars

(***************************************************************************)
(* Properties of the subaction path registry                               *)
(***************************************************************************)
\* The documented region vocabulary with the region and side each names
DocRegions ==
    {[suffix |-> <<"thumbstick">>, tgt |-> "Thumbstick", side |-> None],
     [suffix |-> <<"thumbstick", Slash, "left">>, tgt |-> "Thumbstick", side |-> Some("Left")],
     [suffix |-> <<"thumbstick", Slash, "right">>, tgt |-> "Thumbstick", side |-> Some("Right")],
     [suffix |-> <<"trigger">>, tgt |-> "Trigger", side |-> None],
     [suffix |-> <<"trigger", Slash, "left">>, tgt |-> "Trigger", side |-> Some("Left")],
     [suffix |-> <<"trigger", Slash, "right">>, tgt |-> "Trigger", side |-> Some("Right")],
     [suffix |-> <<"secondary_trigger">>, tgt |-> "SecondaryTrigger", side |-> None],
     [suffix |-> <<"secondary_trigger", Slash, "left">>, tgt |-> "SecondaryTrigger", side |-> Some("Left")],
     [suffix |-> <<"secondary_trigger", Slash, "right">>, tgt |-> "SecondaryTrigger", side |-> Some("Right")],
     [suffix |-> <<"dpad">>, tgt |-> "Dpad", side |-> None],
     [suffix |-> <<"buttons">>, tgt |-> "Buttons", side |-> None]}

NamedTokens == IndexTokens \ {<<>>, <<"*">>}

\* C1: once the notification of a path /gamepad/<token>/<region>[/<side>]
\* with a token other than `*` and the empty string has been processed, the
\* path carries the selector Gamepad(<token>), the region and the side (no
\* side when the path names none).
C1_NamedPathGetsSelectorAndRegion ==
    \A e \in PathEnts : \A tok \in NamedTokens : \A d \in DocRegions :
        (/\ e \in parsed
         /\ pathEvents = <<>>
         /\ pathStr[e] = Some(<<Slash, "gamepad", Slash>> \o tok \o <<Slash>> \o d.suffix))
        => /\ selector[e] = Some(SelGamepad(tok))
           /\ target[e] = Some(d.tgt)
           /\ side[e] = d.side

\* the regions that have sides, by the word that names them
SidedRegions ==
    {[word |-> "thumbstick", tgt |-> "Thumbstick"],
     [word |-> "trigger", tgt |-> "Trigger"],
     [word |-> "secondary_trigger", tgt |-> "SecondaryTrigger"]}

AllTokens == {<<>>, <<"*">>}
GamepadPrefix == <<Slash, "gamepad">>
StartsWithGamepad(s) == Len(s) >= 2 /\ SubSeq(s, 1, 2) = GamepadPrefix

\* C13: a parsed path /gamepad/<*|empty>/<region>/* of a region that has
\* sides carries what the bare /gamepad/<*|empty>/<region> carries: the
\* region and no side.
C13_WildcardSameAsBare ==
    \A e \in PathEnts : \A tok \in AllTokens : \A r \in SidedRegions :
        (/\ e \in parsed
         /\ pathStr[e] = Some(GamepadPrefix \o <<Slash>> \o tok
                                \o <<Slash, r.word, Slash, "*">>))
        => /\ target[e] = Some(r.tgt)
           /\ side[e] = None

\* C14: a parsed path equal to "/gamepad" carries the selector All and no
\* region; a parsed path whose index segment is `*` or empty carries the
\* selector All; "/gamepad/*/dpad" carries All, Dpad and no side; a parsed
\* path that does not start with "/gamepad" carries no selector, no region
\* and no side.
C14_SelectorAll ==
    \A e \in PathEnts :
        (e \in parsed /\ pathStr[e] # None) =>
            LET s == pathStr[e][1] IN
            /\ s = GamepadPrefix =>
                  selector[e] = Some(SelAll) /\ target[e] = None /\ side[e] = None
            /\ (\E tok \in AllTokens : \E r \in RegionSuffixes :
                    s = GamepadPrefix \o <<Slash>> \o tok \o r) =>
                  selector[e] = Some(SelAll)
            /\ s = GamepadPrefix \o <<Slash, "*", Slash, "dpad">> =>
                  target[e] = Some("Dpad") /\ side[e] = None
            /\ ~StartsWithGamepad(s) =>
                  selector[e] = None /\ target[e] = None /\ side[e] = None

\* C14 witness: "/gamepad//buttons" and "/gamepad/*/dpad" were parsed in one
\* batch and both carry the selector All
C14_Witness ==
    /\ parsed = PathEnts
    /\ pathStr["p1"] = Some(GamepadPrefix \o <<Slash, Slash, "buttons">>)
    /\ pathStr["p2"] = Some(GamepadPrefix \o <<Slash, "*", Slash, "dpad">>)
    /\ selector["p1"] = Some(SelAll)
    /\ selector["p2"] = Some(SelAll)
    /\ target["p2"] = Some("Dpad")

\* C15: a parsed path whose index segment is neither `*` nor empty carries
\* the selector Gamepad(<token>) with the token as written, whatever
\* follows the segment.
C15_NamedTokenRecorded ==
    \A e \in PathEnts : \A tok \in NamedTokens : \A r \in RegionSuffixes :
        (e \in parsed /\ pathStr[e] = Some(GamepadPrefix \o <<Slash>> \o tok \o r))
        => selector[e] = Some(SelGamepad(tok))

\* C15 witness: "/gamepad/one/buttons", whose index is no number, was parsed
\* and carries Gamepad("one")
C15_Witness ==
    /\ "p1" \in parsed
    /\ pathStr["p1"] = Some(GamepadPrefix \o <<Slash, "one", Slash, "buttons">>)
    /\ selector["p1"] = Some(SelGamepad(<<"one">>))

\* the suffixes after the index segment that the documented vocabulary
\* holds: nothing, a region, a region with its side, a sided region with `*`
DocSuffixes ==
    {<<>>, <<Slash>>}
      \cup {<<Slash>> \o d.suffix : d \in DocRegions}
      \cup {<<Slash, r.word, Slash, "*">> : r \in SidedRegions}

\* C16: a parsed path /gamepad/<token><suffix> whose suffix is not in the
\* documented vocabulary carries no region and no side, and carries the
\* selector its index segment decides.
C16_UnknownSuffixNoRegion ==
    \A e \in PathEnts : \A tok \in IndexTokens : \A r \in RegionSuffixes \ DocSuffixes :
        (e \in parsed /\ pathStr[e] = Some(GamepadPrefix \o <<Slash>> \o tok \o r))
        => /\ target[e] = None
           /\ side[e] = None
           /\ selector[e] = Some(IF tok \in AllTokens THEN SelAll ELSE SelGamepad(tok))

\* C17: the selector, region and side of a path a notification was
\* processed for never change in any later step, a step that processes a
\* further notification for it included; two parsed paths with the same
\* string carry the same selector, region and side.
C17_MetadataStable ==
    /\ [](\A e1, e2 \in parsed :
             pathStr[e1] = pathStr[e2] =>
                 /\ selector[e1] = selector[e2]
                 /\ target[e1] = target[e2]
                 /\ side[e1] = side[e2])
    /\ [][\A e \in parsed :
             /\ selector'[e] = selector[e]
             /\ target'[e] = target[e]
             /\ side'[e] = side[e]
             /\ pathStr'[e] = pathStr[e]]_vars

\* C17 witness: a second notification for "/gamepad/*/trigger/left" was
\* processed, in a batch with another path's first notification, and the
\* path carries All, Trigger and Left
C17_Witness ==
    /\ "p1" \in reparsed
    /\ "p2" \in parsed \ reparsed
    /\ pathEvents = <<>>
    /\ pathStr["p1"] = Some(GamepadPrefix \o <<Slash, "*", Slash, "trigger", Slash, "left">>)
    /\ pathStr["p2"] = Some(GamepadPrefix \o <<Slash, "0", Slash, "thumbstick", Slash, "left">>)
    /\ selector["p1"] = Some(SelAll)
    /\ target["p1"] = Some("Trigger")
    /\ side["p1"] = Some("Left")

(***************************************************************************)
(* Properties of haptic dispatch                                           *)
(***************************************************************************)
\* some request of the pass targets gamepad g and is of command e's kind
Reaches(e, g) == \E r \in BagToSet(rumble) : r.gamepad = g /\ r.kind = e.kind

WritesOf(p) == {w \in dispatched : w.bucket = p}

\* the connected gamepads that carry the identifier tok
Carriers(tok) == {g \in connected : GamepadIdentifier(g) = Some(tok)}

\* C21: after dispatch every rumble request that came from a per-path list
\* targets a connected gamepad its path's selector resolves to: any connected
\* gamepad for the selector All, a gamepad whose identifier equals the token
\* for the selector Gamepad(token); and a path whose token no connected
\* gamepad carries has produced no rumble request at all.
C21_PathScopedOnlySelected ==
    hapPhase = "post" =>
        /\ \A w \in dispatched :
              w.bucket # "any" =>
                  /\ selector[w.bucket] # None
                  /\ w.req.gamepad \in connected
                  /\ \/ selector[w.bucket][1] = SelAll
                     \/ w.req.gamepad \in Carriers(selector[w.bucket][1][2])
        /\ \A p \in HapPaths :
              (/\ selector[p] # None
               /\ selector[p][1] # SelAll
               /\ Carriers(selector[p][1][2]) = {}) => WritesOf(p) = {}

\* C21 witness: a dispatch with both gamepads connected in which an enabled
\* action holds a start command for "/gamepad/0" and a stop command for
\* "/gamepad/one": the first reached g1 only, the second nobody
C21_Witness ==
    /\ hapPhase = "post"
    /\ connected = Gamepads
    /\ actionSet["a1"] = "enabled"
    /\ hapBindings["a1"] = <<"Weak", "Strong">>
    /\ hapOut["a1"].paths["pZero"] = <<HapAdd>>
    /\ hapOut["a1"].paths["pOne"] = <<HapStop>>
    /\ {w.req.gamepad : w \in WritesOf("pZero")} = {"g1"}
    /\ WritesOf("pOne") = {}

\* C22: after dispatch no rumble request comes from an action whose action
\* set is disabled or cannot be found, from its "any" bucket or from a
\* per-path list; when no action has an enabled set no request exists.
C22_DisabledSetEmitsNothing ==
    hapPhase = "post" =>
        /\ \A w \in dispatched : actionSet[w.action] = "enabled"
        /\ (\A a \in HapActions : actionSet[a] # "enabled") => rumble = EmptyBag

\* C22 witness: a dispatch with both gamepads connected where an action with
\* a disabled set holds an "any" command and an action whose set cannot be
\* found holds a command for the path "/gamepad", both with bindings
C22_Witness ==
    /\ hapPhase = "post"
    /\ connected = Gamepads
    /\ actionSet["a1"] = "disabled"
    /\ actionSet["a2"] = "missing"
    /\ hapBindings["a1"] = <<"Weak", "Strong">>
    /\ hapBindings["a2"] = <<"Strong">>
    /\ hapOut["a1"].any = <<HapAdd>>
    /\ hapOut["a2"].paths["pAll"] = <<HapStop>>
    /\ rumble = EmptyBag

\* C23: a queued haptic command lives for one pass: once a pass has
\* dispatched, the only step is the clear stage, which leaves the "any"
\* bucket and every per-path list of every action empty; a dispatch only
\* starts from a buffer filled since that clear and does not change it.
C23_OnePassLifetime ==
    [][/\ hapPhase = "post" =>
             /\ hapPhase' = "update"
             /\ \A a \in HapActions : hapOut'[a] = EmptyFeedbacks
       /\ hapPhase' = "post" =>
             /\ hapPhase = "update"
             /\ hapOut' = hapOut]_vars

\* C23 witness: the clear stage has just removed commands that went through
\* the dispatch of the pass before; nothing of them is left
C23_Witness ==
    /\ hapPhase = "update"
    /\ lastCleared
    /\ \A a \in HapActions : hapOut[a] = EmptyFeedbacks
    /\ rumble = EmptyBag

(***************************************************************************)
(* Properties of the config load/save pipeline                             *)
(***************************************************************************)
\* the entries of the history of the pass that system sys left
Entries(sys) == {passLog[i] : i \in {j \in Indices(passLog) : passLog[j].sys = sys}}

\* the place of system sys in the history of the pass, 0 when it did not run
Place(sys) ==
    IF \E i \in Indices(passLog) : passLog[i].sys = sys
    THEN CHOOSE i \in Indices(passLog) : passLog[i].sys = sys
    ELSE 0

PassOver == cfgPhase = "post" /\ ran = PostUpdateSystems

\* C3 as stated: when the write stage has run in a pass, the number of
\* FinishedSaving events of the pass equals the number of serialized outputs
\* that arrived in that pass, unconditionally.
C3_OneFinishedPerOutputOfThePass ==
    \A e \in Entries("save_config") : finished = e.fresh

\* C3 amended: when the write stage runs and the config path resolves, it
\* reads every serialized output it has not read yet (the outputs of this
\* pass and unread ones of the pass before) and emits exactly one
\* FinishedSaving for each output read, also when the parent directory could
\* not be created and when the write failed; when the config path does not
\* resolve it reads no output and emits no FinishedSaving.
C3_OneFinishedPerOutputRead ==
    \A e \in Entries("save_config") :
        /\ finished = e.wrote
        /\ e.wrote = e.read
        /\ "path" \notin e.failed => e.read >= e.fresh /\ e.read >= 1
        /\ "path" \in e.failed => e.read = 0

\* C3 witness: the write stage ran, the parent directory could not be
\* created, the write failed, and FinishedSaving was emitted all the same
C3_Witness ==
    \E e \in Entries("save_config") :
        e.failed = {"dir", "write"} /\ e.read = 1 /\ finished = 1 /\ file = NoFile

\* a pass that handles one SaveConfig request whose path resolves, with no
\* serialized output pending other than the serializer's answer
OneSaveRequest ==
    /\ PassOver
    /\ \E e \in Entries("request_save_config") : e.read = 1 /\ "path" \notin e.failed
    /\ \A e \in Entries("save_config") : e.read = 1 /\ e.fresh = 1

\* C4: a pass that handles one SaveConfig request runs request-save, then
\* serialize, then write, in that order, and ends with exactly one
\* FinishedSaving, also when the config file did not exist and when the
\* parent directory could not be created.
C4_SavePipelineCompletes ==
    OneSaveRequest =>
        /\ Place("request_save_config") >= 1
        /\ Place("request_save_config") < Place("serialize")
        /\ Place("serialize") < Place("save_config")
        /\ finished = 1

\* C4 witness: such a pass is over; there was no config file and the
\* parent directory could not be created
C4_Witness ==
    /\ OneSaveRequest
    /\ \E e \in Entries("request_save_config") :
          e.fileKind = "missing" /\ e.dir = "blocked"
    /\ \E e \in Entries("save_config") : "dir" \in e.failed
    /\ finished = 1

\* C9: a run of load_config that finds the config path missing, not a file
\* or unreadable writes no DeserializeRequest, and the pass goes on.
C9_FailedLoadEmitsNothing ==
    \A e \in Entries("load_config") :
        e.failed # {} => e.wrote = 0 /\ deserializeReq = <<>>

\* C9 witness: load_config ran on a file that is there but cannot be read
\* as text, and the pass has ended with no DeserializeRequest
C9_Witness ==
    /\ PassOver
    /\ \E e \in Entries("load_config") : e.failed = {"read"} /\ e.read >= 1
    /\ deserializeReq = <<>>

\* C10: while the file is as the write stage last wrote it, it holds exactly
\* the text of the last serialized output, and a DeserializeRequest of a
\* load made then carries exactly that text.
C10_TextRoundTrip ==
    /\ lastWrite # None => file = RegularFile(lastWrite[1])
    /\ \A i \in Indices(deserializeReq) :
          deserializeReq[i].afterWrite # None =>
              deserializeReq[i].config = deserializeReq[i].afterWrite[1]

\* C10 witness: a load after a successful write of a non-empty text over an
\* earlier non-empty file wrote a DeserializeRequest
C10_Witness ==
    /\ lastWrite = Some(<<"b">>)
    /\ \E i \in Indices(deserializeReq) : deserializeReq[i].afterWrite = Some(<<"b">>)

\* the text of the file at the config path when it is a file that holds
\* valid text, the empty text otherwise
BaseOf(f) ==
    IF f.kind = "file" /\ InvalidByte \notin Range(f.bytes) THEN f.bytes ELSE <<>>

\* C11: when request_save_config has run in a pass with a config path that
\* resolves, the serialize step finds exactly one SerializeRequest, whose
\* base text is the contents of the existing readable file and the empty
\* text when the file is missing, is not a file or cannot be read.
C11_SaveRequestAlwaysEmits ==
    (cfgPhase = "post" /\ "serialize" \notin ran) =>
        \A e \in Entries("request_save_config") :
            "path" \notin e.failed =>
                /\ e.wrote = 1
                /\ serializeReq = <<[base_config |-> BaseOf(file)]>>

\* C11 witness: request_save_config ran on a file that cannot be read as
\* text and the SerializeRequest with the empty base text is waiting
C11_Witness ==
    /\ cfgPhase = "post"
    /\ "serialize" \notin ran
    /\ \E e \in Entries("request_save_config") : e.failed = {"read"}
    /\ file = RegularFile(<<InvalidByte>>)
    /\ serializeReq = <<[base_config |-> <<>>]>>

\* C12: while the config path does not resolve, no step of a pass writes a
\* DeserializeRequest, a SerializeRequest or a FinishedSaving, and none
\* touches the file or its directory; the path is resolved at each
\* operation, so this holds from the pass in which resolution starts to
\* fail, whatever an earlier pass resolved.
C12_NoPathNoEvent ==
    [][(cfgPhase = "post" /\ ~configDir) =>
          /\ Len(deserializeReq') <= Len(deserializeReq)
          /\ Len(serializeReq') <= Len(serializeReq)
          /\ finished' <= finished
          /\ file' = file
          /\ parentDir' = parentDir]_vars

\* C12 witness: a pass is over in which load, save-request and the write
\* stage were all triggered and all gave up on the config path, after an
\* earlier pass had resolved the path and written the file
C12_Witness ==
    /\ PassOver
    /\ ~configDir
    /\ lastWrite # None
    /\ \A sys \in {"load_config", "request_save_config", "save_config"} :
          \E e \in Entries(sys) : e.failed = {"path"} /\ e.wrote = 0
    /\ finished = 0
    /\ deserializeReq = <<>>

(***************************************************************************)
(* Properties of input sync                                                *)
(***************************************************************************)
FaceButtons == {"South", "East", "North", "West"}
DpadButtons == {"DPadUp", "DPadDown", "DPadLeft", "DPadRight"}

\* the sources of one side of a region that has sides
SideSources(tgt, s) ==
    CASE tgt = "Thumbstick" ->
            IF s = "Left" THEN {"LeftStickX", "LeftStickY", "LeftStickClick"}
            ELSE {"RightStickX", "RightStickY", "RightStickClick"}
      [] tgt = "Trigger" ->
            IF s = "Left" THEN {"LeftTrigger"} ELSE {"RightTrigger"}
      [] tgt = "SecondaryTrigger" ->
            IF s = "Left" THEN {"LeftSecondaryTrigger"} ELSE {"RightSecondaryTrigger"}
      [] OTHER -> {}

\* the region-match table as the documentation words it
TableSays(tgt, tside, source) ==
    CASE tgt = "Buttons" -> source \in FaceButtons
      [] tgt = "Dpad" -> source \in DpadButtons
      [] OTHER ->
            IF tside = None
            THEN source \in SideSources(tgt, "Left") \cup SideSources(tgt, "Right")
            ELSE source \in SideSources(tgt, tside[1])

\* C18: for the region and side of the path and the source of the binding,
\* whatever they are, matches answers as the table says: Buttons the four
\* face buttons and Dpad the four d-pad buttons whatever the side;
\* Thumbstick, Trigger and SecondaryTrigger the sources of the given side,
\* or of both sides when no side is given; false for every other triple.
C18_MatchTable ==
    (syncOut # None /\ pathData.tgt # None) =>
        syncOut[1].matched =
            Some(TableSays(pathData.tgt[1], pathData.side, bindingSource))

\* C18 witness: matches answered true for Buttons with the side Left and
\* the source South
C18_Witness ==
    /\ syncOut # None
    /\ pathData.tgt = Some("Buttons")
    /\ pathData.side = Some("Left")
    /\ bindingSource = "South"
    /\ syncOut[1].matched = Some(TRUE)

\* C19: sync_actions evaluates the binding for the path if and only if the
\* path carries no region or its region and side match the binding's
\* source; a binding that is not evaluated yields no value.
C19_RegionFilter ==
    syncOut # None =>
        /\ syncOut[1].evaluated <=>
              (\/ pathData.tgt = None
               \/ TableSays(pathData.tgt[1], pathData.side, bindingSource))
        /\ ~syncOut[1].evaluated => syncOut[1].values = <<>>

\* C19 witness: a binding of the left trigger was evaluated, with one
\* gamepad connected, for a path that carries no region
C19_Witness ==
    /\ syncOut # None
    /\ pathData.tgt = None
    /\ pathData.sel = Some(SelAll)
    /\ bindingSource = "LeftTrigger"
    /\ syncOut[1].evaluated
    /\ syncOut[1].values = <<"g1">>

\* C20: when the binding is evaluated for the path, a value is computed for
\* every connected gamepad, one each, when the selector is All; when the
\* selector is Gamepad(token), for one gamepad whose identifier equals the
\* token if a connected gamepad carries it, never for an untagged gamepad,
\* and for none if no connected gamepad carries it.
C20_DeviceSelection ==
    (syncOut # None /\ syncOut[1].evaluated) =>
        LET vals == syncOut[1].values
            sel == pathData.sel[1]
            carriers == {g \in DOMAIN pads : sel # SelAll /\ pads[g] = Some(sel[2])}
        IN  IF sel = SelAll
            THEN /\ Len(vals) = Cardinality(DOMAIN pads)
                 /\ Range(vals) = DOMAIN pads
            ELSE /\ Range(vals) \subseteq carriers
                 /\ Len(vals) = IF carriers = {} THEN 0 ELSE 1

\* C20 witness: with the selector Gamepad("0"), an untagged gamepad that
\* the query yields first and a gamepad tagged "0", the value of the tagged
\* gamepad alone was computed
C20_Witness ==
    /\ syncOut # None
    /\ syncOut[1].evaluated
    /\ pathData.sel = Some(SelGamepad(<<"0">>))
    /\ DOMAIN pads = Gamepads
    /\ pads["g1"] = None
    /\ pads["g2"] = Some(<<"0">>)
    /\ syncOut[1].order = <<"g1", "g2">>
    /\ syncOut[1].values = <<"g2">>

(***************************************************************************)
(* Properties of default bindings and reset                                *)
(***************************************************************************)
Linked(a) == defaultBindings[a] # None
SnapshotEntity(a) == defaultBindings[a][1]
Handled(m) == lastReset # NoHistory /\ m \in Range(lastReset.msgs)

\* C5: after reset_bindings has processed a ResetAll, every action with a
\* snapshot link has, for every binding-collection type of the build, the
\* snapshot's collection when the snapshot holds the type and no collection
\* of the type when the snapshot lacks it.
C5_ResetAllRestoresEveryType ==
    Handled(ResetAll) =>
        \A a \in RstActions : \A t \in BuildTypes(xrFeature) :
            Linked(a) =>
                IF components[SnapshotEntity(a)][t] # None
                THEN components[a][t] = components[SnapshotEntity(a)][t]
                ELSE components[a][t] = None

\* C5 witness: a ResetAll was processed for an action that had gained a
\* type its snapshot lacks and had changed a type its snapshot holds
C5_Witness ==
    /\ Handled(ResetAll)
    /\ Linked("x1")
    /\ \E t \in BindingTypes :
          lastReset.before["x1"][t] # None /\ components["s1"][t] = None
    /\ \E t \in BindingTypes :
          /\ components["s1"][t] # None
          /\ lastReset.before["x1"][t] # components["s1"][t]

\* C6: once the snapshot is taken, every action's snapshot link and the
\* collections its snapshot holds stay as copy_default_bindings left them,
\* whatever edits and resets follow; an action that had no snapshot then
\* never gets one.
C6_SnapshotNeverChanges ==
    rstPhase = "update" =>
        \A a \in RstActions :
            IF a \in DOMAIN snapAt
            THEN /\ defaultBindings[a] = Some(snapAt[a].link)
                 /\ components[snapAt[a].link] = snapAt[a].held
            ELSE defaultBindings[a] = None

\* C6 witness: an edited action was reset and its snapshot is as taken
C6_Witness ==
    /\ rstPhase = "update"
    /\ edits >= 1
    /\ Handled(ResetAction("x1"))
    /\ lastReset.before["x1"] # snapAt["x1"].held
    /\ components["s1"] = snapAt["x1"].held

\* C7: after reset_bindings has processed the single message
\* ResetAction(id), the collections of action id equal its snapshot's, type
\* by type, and the collections of every other entity are as before.
C7_ResetActionTouchesOnlyItsAction ==
    \A id \in RstActions :
        (lastReset # NoHistory /\ lastReset.msgs = <<ResetAction(id)>>) =>
            /\ Linked(id) =>
                  \A t \in BuildTypes(xrFeature) :
                      components[id][t] = components[SnapshotEntity(id)][t]
            /\ \A e \in Entities \ {id} : components[e] = lastReset.before[e]

\* C7 witness: ResetAction(x1) was processed while x1 and x2 both differed
\* from their snapshots
C7_Witness ==
    /\ lastReset # NoHistory
    /\ lastReset.msgs = <<ResetAction("x1")>>
    /\ Linked("x1") /\ Linked("x2")
    /\ lastReset.before["x1"] # components["s1"]
    /\ components["x2"] # components["s2"]

\* C8: a run of reset_bindings, whatever messages it reads, leaves every
\* collection of an action without a snapshot link as it was.
C8_UnlinkedActionUnaffected ==
    lastReset # NoHistory =>
        \A a \in RstActions : ~Linked(a) => components[a] = lastReset.before[a]

\* C8 witness: ResetAll and ResetAction(x2) were processed while x2, spawned
\* after startup, holds collections and has no snapshot link
C8_Witness ==
    /\ lastReset # NoHistory
    /\ lastReset.msgs = <<ResetAll, ResetAction("x2")>>
    /\ "x2" \in alive
    /\ ~Linked("x2")
    /\ components["x2"] # NoComponents

\* the last run of reset_bindings read a message that names action a, or
\* ResetAll, and a has a snapshot to read
Affected(a) ==
    /\ Linked(a)
    /\ SnapshotEntity(a) \in alive
    /\ Handled(ResetAll) \/ Handled(ResetAction(a))

\* the collections of action a after one reset: the snapshot's for every
\* type of the build
ResetOnce(a) ==
    [t \in BindingTypes |->
        IF t \in BuildTypes(xrFeature) THEN lastReset.before[SnapshotEntity(a)][t]
        ELSE lastReset.before[a][t]]

\* C30: after a run of reset_bindings, whatever ResetAll and ResetAction
\* messages it read, in whatever order and however often repeated, every
\* affected action holds what one reset of it gives, every other action
\* holds what it held before, and no snapshot has changed.
C30_ResetIdempotentAnyOrder ==
    lastReset # NoHistory =>
        /\ \A a \in RstActions :
              components[a] = IF Affected(a) THEN ResetOnce(a) ELSE lastReset.before[a]
        /\ \A s \in SnapEnts : components[s] = lastReset.before[s]

\* C30 witness: ResetAction(x1) and then ResetAll were read in one run, so
\* x1 was reset twice and x2 once, while both differed from their snapshots
C30_Witness ==
    /\ lastReset # NoHistory
    /\ lastReset.msgs = <<ResetAction("x1"), ResetAll>>
    /\ Affected("x1") /\ Affected("x2")
    /\ lastReset.before["x1"] # ResetOnce("x1")
    /\ lastReset.before["x2"] # ResetOnce("x2")
    /\ components["x1"] = ResetOnce("x1")
    /\ components["x2"] = ResetOnce("x2")

(***************************************************************************)
(* Properties of the config pipeline: coalescing                           *)
(***************************************************************************)
\* how many entries system sys left in the history of the pass
RunsOf(sys) == Cardinality({i \in Indices(passLog) : passLog[i].sys = sys})

\* C28 as stated: a run of request_save_config on one or more SaveConfig
\* messages writes exactly one SerializeRequest, and a run of load_config on
\* one or more LoadConfig messages at most one DeserializeRequest.
C28_OneRequestPerPass ==
    /\ \A e \in Entries("request_save_config") : e.read >= 1 => e.wrote = 1
    /\ \A e \in Entries("load_config") : e.read >= 1 => e.wrote <= 1

\* C28 amended: in a pass request_save_config and load_config each run at
\* most once, however many messages wait; the run of request_save_config
\* writes exactly one SerializeRequest when the config path resolves and
\* none when it does not; the run of load_config writes at most one
\* DeserializeRequest; so the serialize step finds at most one request and
\* the pass holds at most one DeserializeRequest.
C28_CoalescedPerPass ==
    /\ RunsOf("request_save_config") <= 1
    /\ RunsOf("load_config") <= 1
    /\ \A e \in Entries("request_save_config") :
          /\ e.read >= 1
          /\ e.wrote = IF "path" \in e.failed THEN 0 ELSE 1
    /\ \A e \in Entries("load_config") : e.read >= 1 /\ e.wrote <= 1
    /\ Len(serializeReq) <= 1
    /\ Len(deserializeReq) <= 1

\* C28 witness: two SaveConfig and two LoadConfig messages waited in one
\* pass; one SerializeRequest and one DeserializeRequest were written
C28_Witness ==
    /\ cfgPhase = "post"
    /\ "serialize" \notin ran
    /\ \E e \in Entries("request_save_config") : e.read = MaxReq /\ e.wrote = 1
    /\ \E e \in Entries("load_config") : e.read = MaxReq /\ e.wrote = 1
    /\ Len(serializeReq) = 1
    /\ Len(deserializeReq) = 1

(***************************************************************************)
(* Properties of binding evaluation                                        *)
(***************************************************************************)
\* C24: the id of a binding depends on its source only: whenever an id has
\* been computed, every binding with the same source, whatever its axis,
\* direction and button trigger mode, has that id.
C24_IdOfSourceOnly ==
    bindOut.op = "id" =>
        \A b \in GamepadBinding :
            b.source = bindOut.binding.source => GetBindingId(b) = bindOut.id

\* C24 witness: an id was computed and the binding then changed its axis,
\* its direction and its button trigger mode in place
C24_Witness ==
    /\ bindOut.op = "id"
    /\ gpBinding.source = bindOut.binding.source
    /\ gpBinding.axis # bindOut.binding.axis
    /\ gpBinding.axis_dir # bindOut.binding.axis_dir
    /\ gpBinding.button_behavior # bindOut.binding.button_behavior
    /\ GetBindingId(gpBinding) = bindOut.id

\* the reading the evaluation was given: the unclamped one when the
\* unbounded flag is set, the clamped one otherwise
GivenReading ==
    IF bindOut.data.unbounded THEN bindOut.gamepad.get_unclamped
    ELSE bindOut.gamepad.get

\* C25: an evaluation never ends the pass; without a reading its value has
\* no boolean, no scalar and no vector; with a reading each of the three is
\* present exactly when its shape is requested.
C25_AbsentOrAsRequested ==
    bindOut.op = "value" =>
        /\ bindOut.input.kind # "unreachable"
        /\ GivenReading = None =>
              /\ bindOut.value.bool = None
              /\ bindOut.value.f32 = None
              /\ bindOut.value.vec2 = None
        /\ GivenReading # None =>
              /\ (bindOut.value.bool # None) <=> bindOut.data.is_bool
              /\ (bindOut.value.f32 # None) <=> bindOut.data.is_f32
              /\ (bindOut.value.vec2 # None) <=> bindOut.data.is_vec2

\* C25 witness: all three shapes are requested of a gamepad that has no
\* clamped reading for the source (only an unclamped one, which is not asked)
C25_Witness ==
    /\ bindOut.op = "value"
    /\ ~bindOut.data.unbounded
    /\ bindOut.gamepad = [get |-> None, get_unclamped |-> Some(15)]
    /\ bindOut.data.is_bool /\ bindOut.data.is_f32 /\ bindOut.data.is_vec2
    /\ bindOut.value = [vec2 |-> None, bool |-> None, f32 |-> None]

\* the number the scalar and the vector carry: reading times direction
\* (+1 or -1) times the delta time when premultiplication is on, times 1 else
Expected ==
    GivenReading[1]
      * (IF gpBinding.axis_dir = "Negative" THEN -1 ELSE 1)
      * (IF bindOut.data.premul_delta_time THEN bindOut.delta ELSE 1)

\* C26: with a reading, the boolean (when present) is "reading > 0.1"
\* whatever the direction and the delta time; the scalar (when present) is
\* reading x direction x (delta time if premultiplied, else 1); the vector
\* (when present) carries that number in the requested axis, 0 in the other.
C26_ModifiersOnScalarAndVector ==
    (bindOut.op = "value" /\ GivenReading # None) =>
        /\ bindOut.value.bool # None => bindOut.value.bool[1] = (GivenReading[1] > 1)
        /\ bindOut.value.f32 # None => bindOut.value.f32[1] = Expected
        /\ bindOut.value.vec2 # None =>
              bindOut.value.vec2[1] =
                  IF gpBinding.axis = "X" THEN [x |-> Expected, y |-> 0]
                  ELSE [x |-> 0, y |-> Expected]

\* C26 witness: reading 0.2, direction negative, axis Y, premultiplied by a
\* delta time of 3, all shapes requested
C26_Witness ==
    /\ bindOut.op = "value"
    /\ bindOut.data = [is_bool |-> TRUE, is_f32 |-> TRUE, is_vec2 |-> TRUE,
                       premul_delta_time |-> TRUE, unbounded |-> FALSE]
    /\ bindOut.gamepad.get = Some(2)
    /\ bindOut.delta = 3
    /\ gpBinding.axis = "Y" /\ gpBinding.axis_dir = "Negative"
    /\ bindOut.value = [bool |-> Some(TRUE), f32 |-> Some(-6),
                        vec2 |-> Some([x |-> 0, y |-> -6])]

\* C27: the source of the binding is axis-type or button-type and not both,
\* and a conversion to a gamepad input has given an axis or a button, never
\* the unreachable branch.
C27_ExactlyOneType ==
    /\ (AsAxisType(gpBinding.source) = None) # (AsButtonType(gpBinding.source) = None)
    /\ bindOut.op = "into" => bindOut.input.kind \in {"Axis", "Button"}

\* C27 witness: the non-standard button source has been converted
C27_Witness ==
    /\ bindOut.op = "into"
    /\ gpBinding.source = "OtherButton(0)"
    /\ bindOut.input = [kind |-> "Button", v |-> "Other(0)"]

\* C29: a source that as_axis_type (as_button_type) maps to an axis (button)
\* is what from_axis (from_button) gives back for it, and an axis (button)
\* is what as_axis_type (as_button_type) gives for its from_axis
\* (from_button) source.
C29_RoundTrips ==
    /\ (bindOut.op = "as_axis_type" /\ bindOut.result # None) =>
          FromAxis(bindOut.result[1]) = gpBinding.source
    /\ (bindOut.op = "as_button_type" /\ bindOut.result # None) =>
          FromButton(bindOut.result[1]) = gpBinding.source
    /\ bindOut.op = "from_axis" => AsAxisType(bindOut.result) = Some(bindOut.arg)
    /\ bindOut.op = "from_button" => AsButtonType(bindOut.result) = Some(bindOut.arg)

\* C29 witness: the primary left trigger has been mapped to its button,
\* LeftTrigger2, which from_button maps back
C29_Witness ==
    /\ bindOut.op = "as_button_type"
    /\ gpBinding.source = "LeftTrigger"
    /\ bindOut.result = Some("LeftTrigger2")
    /\ FromButton("LeftTrigger2") = "LeftTrigger"

====
